---- MODULE Spec2Model ----
(***************************************************************************)
(* A model of the postfix interpreter of dcpl-rust: the operand stack and  *)
(* its primitives (program.rs), the built-in evaluator and the command     *)
(* fold (program.rs), the translation of symbolic expressions into         *)
(* commands (parse.rs) and the program registry (top_level.rs); and of the *)
(* evaluator of the Lisp interpreter (lisp/src/interpreter.rs).            *)
(*                                                                         *)
(* A Vec is a sequence, bottom of the stack first, top of the stack last.  *)
(* A Result is a record with tag "Ok" or "Err"; a Rust panic (which ends   *)
(* the host process: nothing in the read-eval-print loop catches it) is    *)
(* the third tag "Panic".                                                  *)
(***************************************************************************)
EXTENDS Integers, Sequences, FiniteSets, TLC

VARIABLES
    overflow_checks, \* the build: TRUE = arithmetic overflow panics (debug), FALSE = it wraps (release)
    programs,        \* TopLevel.programs: name -> Program, or NoProgram
    host,            \* "running", or "aborted" once a request has panicked
    request,         \* the S-expression last handed to TopLevel::interpret (SpecLisp: to Runtime::rep_iter)
    response,        \* what interpret (SpecLisp: rep_iter) returned for it
    latest,          \* history: name -> number of successful Defs and the last one's arity and body
    stack,           \* SpecBuiltin: the stack a built-in is applied to
    builtin,         \* SpecBuiltin: the built-in applied
    out,             \* SpecBuiltin: the result of Program::apply_builtin
    prog,            \* SpecApply: the program invoked
    args,            \* SpecApply: its arguments
    result,          \* SpecApply: the result of Program::apply
    literal,         \* SpecBuiltin: the literal command handed to Program::apply_command
    tree,            \* SpecRead: the symbolic expression handed to Command::eval
    translated,      \* SpecRead: the result of Command::eval
    memo,            \* SpecRepeat: history, a Call answered earlier and its answer
    runtime,         \* SpecLisp: the Runtime of the Lisp interpreter (its env)
    evaluated,       \* SpecLisp: the Result of Runtime::eval for the last request
    assigned         \* SpecLisp: history, symbol -> the value of the last set! completed

lispVars == <<runtime, evaluated, assigned>>

vars == <<overflow_checks, programs, host, request, response, latest,
          stack, builtin, out, prog, args, result, literal, tree, translated, memo,
          runtime, evaluated, assigned>>

----------------------------------------------------------------------------
(* Integer widths.  TLC's integers are 32 bits wide, so i128 and usize are  *)
(* modelled by narrower two's-complement words with the same behaviour at   *)
(* their limits; usize stays narrower than i128 as in the program.          *)

IntBits == 6

UsizeBits == 4

RECURSIVE Pow2(_)
Pow2(n) == IF n = 0 THEN 1 ELSE 2 * Pow2(n - 1)

I128_MIN == 0 - Pow2(IntBits - 1)

I128_MAX == Pow2(IntBits - 1) - 1

InI128(x) == I128_MIN <= x /\ x <= I128_MAX

\* two's-complement wrap of an exact result into the i128 range
WrapI128(x) == ((x - I128_MIN) % Pow2(IntBits)) + I128_MIN

\* `value as usize`: the low bits of the i128
AsUsize(x) == x % Pow2(UsizeBits)

\* usize subtraction `a - b`: a panic under overflow checks, a wrap otherwise
UsizeSub(a, b) ==
    IF a >= b THEN [tag |-> "Ok", val |-> a - b]
    ELSE IF overflow_checks THEN [tag |-> "Panic", err |-> "attempt to subtract with overflow"]
    ELSE [tag |-> "Ok", val |-> (a - b) % Pow2(UsizeBits)]

Abs(x) == IF x < 0 THEN 0 - x ELSE x

\* Rust's `/` on integers truncates toward zero
TruncDiv(a, b) ==
    IF (a < 0) = (b < 0) THEN Abs(a) \div Abs(b) ELSE 0 - (Abs(a) \div Abs(b))

\* Rust's `%` on integers: the remainder of the truncating division
TruncRem(a, b) == a - b * TruncDiv(a, b)

----------------------------------------------------------------------------
(* Commands (parse.rs) and stack values (program.rs)                        *)

BuiltIns == {"Add", "Div", "Eq", "Exec", "Gt", "Lt", "Mul", "Nget", "Pop",
             "Rem", "Sel", "Sub", "Swap"}

CInteger(i) == [tag |-> "Integer", val |-> i]

CBuiltIn(b) == [tag |-> "BuiltIn", op |-> b]

CExecutableSequence(cmds) == [tag |-> "ExecutableSequence", cmds |-> cmds]

SInteger(i) == [kind |-> "Integer", val |-> i]

SExecutableSequence(cmds) == [kind |-> "ExecutableSequence", cmds |-> cmds]

\* impl From<i128> for StackValue
StackValue_from(number) == SInteger(number)

\* A Stack is the Vec `v` together with a history `log`: one entry per
\* command that Program::apply_command has started on this stack, with the
\* stack contents it started from.
Stack(v) == [v |-> v, log |-> <<>>]

Front(s) == SubSeq(s, 1, Len(s) - 1)

Last(s) == s[Len(s)]

Ok(st) == [tag |-> "Ok", stack |-> st]

\* the `?` operator: an error or a panic leaves the function, keeping the history
Fail(r, st) == [tag |-> r.tag, err |-> r.err, log |-> st.log]

\* `let x = e;`: e is evaluated once and the rest, K, uses its value
Bind(e, K(_)) == CHOOSE y \in {K(x) : x \in {e}} : TRUE

\* `let x = e?;` inside a function working on the stack st
Try(e, st, K(_)) == Bind(e, LAMBDA x : IF x.tag # "Ok" THEN Fail(x, st) ELSE K(x))

\* `let x = e?;` where the error is returned as it is
TryT(e, K(_)) == Bind(e, LAMBDA x : IF x.tag # "Ok" THEN x ELSE K(x))

\* a variant of assert_integer that accepts a value of either kind
StackValue_assert_integer_AcceptAll(self) == [tag |-> "Ok"]

StackValue_assert_integer(self) ==
    IF self.kind = "Integer" THEN [tag |-> "Ok"]
    ELSE [tag |-> "Err", err |-> "NotANumber"]

\* a variant of into_integer that takes an executable sequence for 0
StackValue_into_integer_SeqAsZero(self) ==
    IF self.kind = "Integer" THEN [tag |-> "Ok", val |-> self.val]
    ELSE [tag |-> "Ok", val |-> 0]

StackValue_into_integer(self) ==
    IF self.kind = "Integer" THEN [tag |-> "Ok", val |-> self.val]
    ELSE [tag |-> "Err", err |-> "NotANumber"]

\* a variant of into_ex_seq that takes an Integer for the empty sequence
StackValue_into_ex_seq_IntegerAsEmpty(self) ==
    IF self.kind = "ExecutableSequence" THEN [tag |-> "Ok", val |-> self.cmds]
    ELSE [tag |-> "Ok", val |-> <<>>]

StackValue_into_ex_seq(self) ==
    IF self.kind = "ExecutableSequence" THEN [tag |-> "Ok", val |-> self.cmds]
    ELSE [tag |-> "Err", err |-> "NotAnExecutableSequence"]

\* Stack::pop: the popped value and the stack without it
pop(self) ==
    IF self.v = <<>> THEN [tag |-> "Err", err |-> "NotEnoughValues"]
    ELSE [tag |-> "Ok", val |-> Last(self.v), stack |-> [self EXCEPT !.v = Front(@)]]

push(self, value) == [self EXCEPT !.v = Append(@, value)]

\* a variant of swap that pushes the two values back in the order it popped
\* them in reverse: `push(v2); push(v1)`
swap_PushBack(self) ==
    Try(pop(self), self, LAMBDA p1 :
    Try(pop(p1.stack), self, LAMBDA p2 :
    Ok(push(push(p2.stack, p2.val), p1.val))))

swap(self) ==
    Try(pop(self), self, LAMBDA p1 :
    Try(pop(p1.stack), self, LAMBDA p2 :
    Ok(push(push(p2.stack, p1.val), p2.val))))

\* a variant of nget that counts the index from the bottom: `get(vindex - 1)`
nget_FromBottom(self) ==
    Try(pop(self), self, LAMBDA p :
    Try(StackValue_into_integer(p.val), self, LAMBDA vindex :
    Try(UsizeSub(AsUsize(vindex.val), 1), self, LAMBDA at :
    IF ~(at.val < Len(p.stack.v))
    THEN Fail([tag |-> "Err", err |-> "NotEnoughValues"], self)
    ELSE Try(StackValue_assert_integer(p.stack.v[at.val + 1]), self, LAMBDA a :
         Ok(push(p.stack, p.stack.v[at.val + 1]))))))

\* a variant of nget that reads the index without popping it
nget_KeepsIndex(self) ==
    Try(pop(self), self, LAMBDA p :
    Try(StackValue_into_integer(p.val), self, LAMBDA vindex :
    Try(UsizeSub(Len(p.stack.v), AsUsize(vindex.val)), self, LAMBDA at :
    IF ~(at.val < Len(p.stack.v))
    THEN Fail([tag |-> "Err", err |-> "NotEnoughValues"], self)
    ELSE Try(StackValue_assert_integer(p.stack.v[at.val + 1]), self, LAMBDA a :
         Ok(push(self, p.stack.v[at.val + 1]))))))

nget(self) ==
    Try(pop(self), self, LAMBDA p :
    Try(StackValue_into_integer(p.val), self, LAMBDA vindex :
    Try(UsizeSub(Len(p.stack.v), AsUsize(vindex.val)), self, LAMBDA at :
    \* Vec::get(i): None unless i < len
    IF ~(at.val < Len(p.stack.v))
    THEN Fail([tag |-> "Err", err |-> "NotEnoughValues"], self)
    ELSE Try(StackValue_assert_integer(p.stack.v[at.val + 1]), self, LAMBDA a :
         Ok(push(p.stack, p.stack.v[at.val + 1]))))))

\* a variant of ArithValue with the operands exchanged: `v1 $op v2`
ArithValue_Swapped(op, v2, v1) ==
    CASE op = "Add" -> v1 + v2
      [] op = "Sub" -> v1 - v2
      [] op = "Mul" -> v1 * v2
      [] op = "Div" -> TruncDiv(v1, v2)
      [] op = "Rem" -> TruncRem(v1, v2)

\* `v2 $op v1` on i128, for the five operators of arith_op!
ArithValue(op, v2, v1) ==
    CASE op = "Add" -> v2 + v1
      [] op = "Sub" -> v2 - v1
      [] op = "Mul" -> v2 * v1
      [] op = "Div" -> TruncDiv(v2, v1)
      [] op = "Rem" -> TruncRem(v2, v1)

Arith(op, v2, v1) ==
    IF op \in {"Div", "Rem"} /\ v1 = 0
    THEN [tag |-> "Panic", err |-> "attempt to divide by zero"]
    ELSE IF op \in {"Div", "Rem"} /\ v1 = 0 - 1 /\ v2 = I128_MIN
    THEN [tag |-> "Panic", err |-> "attempt to divide with overflow"]
    ELSE Bind(ArithValue(op, v2, v1), LAMBDA exact :
         IF InI128(exact) THEN [tag |-> "Ok", val |-> exact]
         ELSE IF overflow_checks
         THEN [tag |-> "Panic", err |-> "arithmetic overflow"]
         ELSE [tag |-> "Ok", val |-> WrapI128(exact)])

\* a variant of arith_op! that pops both operands before converting either
arith_op_PopBothFirst(self, op) ==
    Try(pop(self), self, LAMBDA p1 :
    Try(pop(p1.stack), self, LAMBDA p2 :
    Try(StackValue_into_integer(p1.val), self, LAMBDA v1 :
    Try(StackValue_into_integer(p2.val), self, LAMBDA v2 :
    Try(Arith(op, v2.val, v1.val), self, LAMBDA r :
    Ok(push(p2.stack, SInteger(r.val))))))))

arith_op(self, op) ==
    Try(pop(self), self, LAMBDA p1 :
    Try(StackValue_into_integer(p1.val), self, LAMBDA v1 :
    Try(pop(p1.stack), self, LAMBDA p2 :
    Try(StackValue_into_integer(p2.val), self, LAMBDA v2 :
    Try(Arith(op, v2.val, v1.val), self, LAMBDA r :
    Ok(push(p2.stack, SInteger(r.val))))))))

\* a variant of Compare with the operands exchanged: `v1 $op v2`
Compare_Swapped(op, v2, v1) ==
    CASE op = "Eq" -> v1 = v2
      [] op = "Gt" -> v1 > v2
      [] op = "Lt" -> v1 < v2

Compare(op, v2, v1) ==
    CASE op = "Eq" -> v2 = v1
      [] op = "Gt" -> v2 > v1
      [] op = "Lt" -> v2 < v1

bool_op(self, op) ==
    Try(pop(self), self, LAMBDA p1 :
    Try(StackValue_into_integer(p1.val), self, LAMBDA v1 :
    Try(pop(p1.stack), self, LAMBDA p2 :
    Try(StackValue_into_integer(p2.val), self, LAMBDA v2 :
    Ok(push(p2.stack, SInteger(IF Compare(op, v2.val, v1.val) THEN 1 ELSE 0)))))))

----------------------------------------------------------------------------
(* The command fold and the built-in evaluator (program.rs)                 *)

RECURSIVE try_fold(_, _)
RECURSIVE apply_command(_, _)
RECURSIVE apply_builtin(_, _)

\* a variant of Stack::exec that runs the commands on a stack of their own
exec_FreshStack(self, commands) == try_fold([self EXCEPT !.v = <<>>], commands)

\* Stack::exec: the fold of Program::apply_command over the commands, on this stack
exec(self, commands) == try_fold(self, commands)

\* a variant of the fold that skips a failing command and goes on
try_fold_NoAbort(init, commands) ==
    IF commands = <<>> THEN Ok(init) ELSE
    Bind(apply_command(init, Head(commands)), LAMBDA r :
    IF r.tag # "Ok" THEN try_fold(init, Tail(commands))
    ELSE try_fold(r.stack, Tail(commands)))

\* Iterator::try_fold(stack, Program::apply_command): left to right, the
\* first result that is not Ok is returned at once
try_fold(init, commands) ==
    IF commands = <<>> THEN Ok(init) ELSE
    Bind(apply_command(init, Head(commands)), LAMBDA r :
    IF r.tag # "Ok" THEN r ELSE try_fold(r.stack, Tail(commands)))

\* a variant of Sel with the two branches exchanged
sel_Inverted(self) ==
    Try(pop(self), self, LAMBDA p1 :
    Try(pop(p1.stack), self, LAMBDA p2 :
    Try(pop(p2.stack), self, LAMBDA p3 :
    Try(StackValue_into_integer(p3.val), self, LAMBDA v3 :
    IF v3.val = 0 THEN Ok(push(p3.stack, p2.val)) ELSE Ok(push(p3.stack, p1.val))))))

sel(self) ==
    Try(pop(self), self, LAMBDA p1 :
    Try(pop(p1.stack), self, LAMBDA p2 :
    Try(pop(p2.stack), self, LAMBDA p3 :
    Try(StackValue_into_integer(p3.val), self, LAMBDA v3 :
    IF v3.val = 0 THEN Ok(push(p3.stack, p1.val)) ELSE Ok(push(p3.stack, p2.val))))))

apply_builtin(self, b) ==
    CASE b \in {"Add", "Sub", "Mul", "Div", "Rem"} -> arith_op(self, b)
      [] b \in {"Eq", "Gt", "Lt"} -> bool_op(self, b)
      [] b = "Pop" -> Try(pop(self), self, LAMBDA p : Ok(p.stack))
      [] b = "Swap" -> swap(self)
      [] b = "Sel" -> sel(self)
      [] b = "Nget" -> nget(self)
      [] b = "Exec" ->
            Try(pop(self), self, LAMBDA top :
            Try(StackValue_into_ex_seq(top.val), self, LAMBDA seq :
            exec(top.stack, seq.val)))

Reverse(s) == [i \in 1..Len(s) |-> s[Len(s) + 1 - i]]

\* the history entry of a command started on a stack
Started(self, cmd) ==
    [self EXCEPT !.log = Append(@, [cmd |-> cmd, before |-> self.v])]

\* a variant of apply_command that runs a quoted sequence where it is written
apply_command_RunsQuoted(self, cmd) ==
    Bind(Started(self, cmd), LAMBDA st :
    CASE cmd.tag = "Integer" -> Ok(push(st, StackValue_from(cmd.val)))
      [] cmd.tag = "ExecutableSequence" -> try_fold(st, cmd.cmds)
      [] cmd.tag = "BuiltIn" -> apply_builtin(st, cmd.op))

\* a variant of apply_command that pushes the commands of a quoted sequence
\* in reverse order
apply_command_ReversedQuote(self, cmd) ==
    Bind(Started(self, cmd), LAMBDA st :
    CASE cmd.tag = "Integer" -> Ok(push(st, StackValue_from(cmd.val)))
      [] cmd.tag = "ExecutableSequence" ->
            Ok(push(st, SExecutableSequence(Reverse(cmd.cmds))))
      [] cmd.tag = "BuiltIn" -> apply_builtin(st, cmd.op))

apply_command(self, cmd) ==
    Bind(Started(self, cmd), LAMBDA st :
    CASE cmd.tag = "Integer" -> Ok(push(st, StackValue_from(cmd.val)))
      [] cmd.tag = "ExecutableSequence" ->
            Ok(push(st, SExecutableSequence(cmd.cmds)))
      [] cmd.tag = "BuiltIn" -> apply_builtin(st, cmd.op))

----------------------------------------------------------------------------
(* Program (program.rs)                                                     *)

Program_new(num_args, commands) == [num_args |-> num_args, commands |-> commands]

\* a variant of the seeding without `.rev()`
SeedStack_NoReverse(arguments) ==
    Stack([i \in 1..Len(arguments) |-> StackValue_from(arguments[i])])

\* args.into_iter().rev().map(StackValue::from).collect()
SeedStack(arguments) ==
    Stack([i \in 1..Len(arguments) |-> StackValue_from(Reverse(arguments)[i])])

ProgramError(e) == [e |-> "ProgramError", inner |-> e]

\* a variant that insists on the final stack holding the result alone
FinalValue_RequireSingle(f) ==
    Bind(pop(f.stack), LAMBDA p :
    IF p.tag # "Ok" \/ p.stack.v # <<>>
    THEN [tag |-> "Err", err |-> ProgramError("NotEnoughValues"), log |-> f.stack.log]
    ELSE IF p.val.kind = "Integer"
    THEN [tag |-> "Ok", val |-> p.val.val, log |-> f.stack.log]
    ELSE [tag |-> "Err", err |-> ProgramError("FinalValueNotAnInteger"), log |-> f.stack.log])

\* the match on the popped final value
FinalValue(f) ==
    Bind(pop(f.stack), LAMBDA p :
    IF p.tag # "Ok" THEN [tag |-> "Err", err |-> ProgramError(p.err), log |-> f.stack.log]
    ELSE IF p.val.kind = "Integer"
    THEN [tag |-> "Ok", val |-> p.val.val, log |-> f.stack.log]
    ELSE [tag |-> "Err", err |-> ProgramError("FinalValueNotAnInteger"), log |-> f.stack.log])

\* a variant of Program::apply that only rejects too few arguments
Program_apply_ArityAtLeast(self, arguments) ==
    IF self.num_args > Len(arguments)
    THEN [tag |-> "Err",
          err |-> [e |-> "WrongNumberOfArgs", expected |-> self.num_args,
                   actual |-> Len(arguments)],
          log |-> <<>>]
    ELSE
    Bind(try_fold(SeedStack(arguments), self.commands), LAMBDA final_stack :
    IF final_stack.tag = "Panic" THEN final_stack
    ELSE IF final_stack.tag = "Err"
    THEN [tag |-> "Err", err |-> ProgramError(final_stack.err), log |-> final_stack.log]
    ELSE FinalValue(final_stack))

\* Program::apply.  The result carries the history of the commands started.
Program_apply(self, arguments) ==
    IF self.num_args # Len(arguments)
    THEN [tag |-> "Err",
          err |-> [e |-> "WrongNumberOfArgs", expected |-> self.num_args,
                   actual |-> Len(arguments)],
          log |-> <<>>]
    ELSE
    Bind(try_fold(SeedStack(arguments), self.commands), LAMBDA final_stack :
    IF final_stack.tag = "Panic" THEN final_stack
    ELSE IF final_stack.tag = "Err"
    THEN [tag |-> "Err", err |-> ProgramError(final_stack.err), log |-> final_stack.log]
    ELSE FinalValue(final_stack))

----------------------------------------------------------------------------
(* Absent values *)

NoResult == [tag |-> "none"]

NoProgram == [num_args |-> 0 - 1, commands |-> <<>>]

NoRequest == [t |-> "none"]

NoCommand == [tag |-> "none"]

NoMemo == [some |-> FALSE]

\* Option<String>: None, and Some(format!(fmt, arg))
None == [some |-> FALSE, fmt |-> "", arg |-> <<>>]

Some(fmt, arg) == [some |-> TRUE, fmt |-> fmt, arg |-> arg]

----------------------------------------------------------------------------
(* Symbolic expressions (lib.rs) and their translation to commands          *)
(* (parse.rs; top_level.rs calls it Command::read)                          *)

XList(items) == [t |-> "List", items |-> items]

XInteger(i) == [t |-> "Integer", val |-> i]

XSymbol(name) == [t |-> "Symbol", name |-> name]

XFloat(f) == [t |-> "Float", repr |-> f]

XString(content) == [t |-> "String", content |-> content]

\* SExp::into_symbol
SExp_into_symbol(self) ==
    IF self.t = "Symbol" THEN [tag |-> "Some", val |-> self.name] ELSE [tag |-> "None"]

\* SExp::into_integer
SExp_into_integer(self) ==
    IF self.t = "Integer" THEN [tag |-> "Some", val |-> self.val] ELSE [tag |-> "None"]

BuiltInNames ==
    [add |-> "Add", div |-> "Div", eq |-> "Eq", exec |-> "Exec", gt |-> "Gt",
     lt |-> "Lt", mul |-> "Mul", nget |-> "Nget", pop |-> "Pop", rem |-> "Rem",
     sel |-> "Sel", sub |-> "Sub", swap |-> "Swap"]

\* a variant of BuiltIn::eval with the arm of "rem" copied from "div"
BuiltIn_eval_RemAsDiv(name) ==
    IF name = "rem" THEN [tag |-> "Ok", val |-> "Div"]
    ELSE IF name \in DOMAIN BuiltInNames
    THEN [tag |-> "Ok", val |-> BuiltInNames[name]]
    ELSE [tag |-> "Err", err |-> [e |-> "UnknownBuiltin", name |-> name]]

BuiltIn_eval(name) ==
    IF name \in DOMAIN BuiltInNames
    THEN [tag |-> "Ok", val |-> BuiltInNames[name]]
    ELSE [tag |-> "Err", err |-> [e |-> "UnknownBuiltin", name |-> name]]

RECURSIVE Command_eval(_)
RECURSIVE Command_eval_ex_seq(_)

Command_eval(sexp) ==
    CASE sexp.t = "List" ->
            TryT(Command_eval_ex_seq(sexp.items), LAMBDA inner :
            [tag |-> "Ok", val |-> CExecutableSequence(inner.val)])
      [] sexp.t = "Integer" -> [tag |-> "Ok", val |-> CInteger(sexp.val)]
      [] sexp.t = "Symbol" ->
            TryT(BuiltIn_eval(sexp.name), LAMBDA b :
            [tag |-> "Ok", val |-> CBuiltIn(b.val)])
      [] sexp.t = "Float" -> [tag |-> "Err", err |-> [e |-> "UsingFloat"]]
      [] sexp.t = "String" -> [tag |-> "Err", err |-> [e |-> "UsingString"]]

\* a variant that translates every expression and returns the last error met
Command_eval_ex_seq_LastError(exprs) ==
    IF exprs = <<>> THEN [tag |-> "Ok", val |-> <<>>] ELSE
    TryT(Command_eval_ex_seq(Tail(exprs)), LAMBDA t :
    TryT(Command_eval(Head(exprs)), LAMBDA h :
    [tag |-> "Ok", val |-> <<h.val>> \o t.val]))

\* exprs.into_iter().map(Command::eval).collect(): the commands in order,
\* or the first error met
Command_eval_ex_seq(exprs) ==
    IF exprs = <<>> THEN [tag |-> "Ok", val |-> <<>>] ELSE
    TryT(Command_eval(Head(exprs)), LAMBDA h :
    TryT(Command_eval_ex_seq(Tail(exprs)), LAMBDA t :
    [tag |-> "Ok", val |-> <<h.val>> \o t.val]))

----------------------------------------------------------------------------
(* Requests and the registry (top_level.rs)                                 *)

TErr(e) == [tag |-> "Err", err |-> e]

\* Option::ok_or(e)
ok_or(o, e) == IF o.tag = "None" THEN TErr(e) ELSE [tag |-> "Ok", val |-> o.val]

\* Iterator::next
next(exprs) ==
    IF exprs = <<>> THEN [tag |-> "None"]
    ELSE [tag |-> "Some", val |-> [item |-> Head(exprs), rest |-> Tail(exprs)]]

TopLevelCommand_def(exprs) ==
    TryT(ok_or(next(exprs), [e |-> "NotEnoughArgs", context |-> "def"]), LAMBDA n1 :
    TryT(ok_or(SExp_into_symbol(n1.val.item), [e |-> "NotASymbol"]), LAMBDA name :
    TryT(ok_or(next(n1.val.rest), [e |-> "NotEnoughArgs", context |-> "def"]), LAMBDA n2 :
    TryT(ok_or(SExp_into_integer(n2.val.item), [e |-> "NotAnInteger"]), LAMBDA num_args :
    Bind(Command_eval_ex_seq(n2.val.rest), LAMBDA commands :
    IF commands.tag # "Ok" THEN TErr([e |-> "ReadError", inner |-> commands.err]) ELSE
    [tag |-> "Ok",
     val |-> [cmd |-> "Def", name |-> name.val, num_args |-> AsUsize(num_args.val),
              commands |-> commands.val]])))))

RECURSIVE CallArgs(_, _)
\* a variant of the loop that leaves out the expressions that are not integers
CallArgs_SkipOthers(exprs, acc) ==
    IF exprs = <<>> THEN [tag |-> "Ok", val |-> acc]
    ELSE IF Head(exprs).t = "Integer"
    THEN CallArgs(Tail(exprs), Append(acc, Head(exprs).val))
    ELSE CallArgs(Tail(exprs), acc)

\* the loop of TopLevelCommand::call over the remaining expressions
CallArgs(exprs, acc) ==
    IF exprs = <<>> THEN [tag |-> "Ok", val |-> acc]
    ELSE IF Head(exprs).t = "Integer"
    THEN CallArgs(Tail(exprs), Append(acc, Head(exprs).val))
    ELSE TErr([e |-> "IllegalArgumentType", expr |-> Head(exprs)])

TopLevelCommand_call(name, exprs) ==
    TryT(CallArgs(exprs, <<>>), LAMBDA a :
    [tag |-> "Ok", val |-> [cmd |-> "Call", name |-> name, args |-> a.val]])

\* a variant that takes `def` for the definition form only when something follows it
TopLevelCommand_read_symbol_DefWithOperands(name, rest) ==
    IF name = "def" /\ rest # <<>>
    THEN TopLevelCommand_def(rest) ELSE TopLevelCommand_call(name, rest)

TopLevelCommand_read_symbol(name, rest) ==
    IF name = "def" THEN TopLevelCommand_def(rest) ELSE TopLevelCommand_call(name, rest)

TopLevelCommand_read(exprs) ==
    TryT(ok_or(next(exprs), [e |-> "NotEnoughArgs", context |-> "()"]), LAMBDA n1 :
    TryT(ok_or(SExp_into_symbol(n1.val.item), [e |-> "NotASymbol"]), LAMBDA name :
    TopLevelCommand_read_symbol(name.val, n1.val.rest)))

\* a variant of the insertion that keeps an entry that exists (entry().or_insert())
Insert_KeepExisting(map, name, program) ==
    [n \in DOMAIN map \cup {name} |-> IF n \in DOMAIN map THEN map[n] ELSE program]

\* HashMap::insert: the entry of `name` is set, whether or not it existed
Insert(map, name, program) ==
    [n \in DOMAIN map \cup {name} |-> IF n = name THEN program ELSE map[n]]

\* a variant of TopLevel::new with a wrapper for every arithmetic built-in
TopLevel_new_WithRem ==
    [n \in {"add", "sub", "mul", "div", "rem", "eq", "lt", "gt"} |->
        Program_new(2, <<CBuiltIn(BuiltInNames[n])>>)]

\* the registry TopLevel::new builds
TopLevel_new ==
    [n \in {"add", "sub", "mul", "div", "eq", "lt", "gt"} |->
        Program_new(2, <<CBuiltIn(BuiltInNames[n])>>)]

\* Remove(map, name): the map without the entry of name
Remove(map, name) == [n \in DOMAIN map \ {name} |-> map[n]]

\* a variant of TopLevel::apply that takes the program out of the registry
\* for the call and puts it back only when the call succeeds
TopLevel_apply_TakeProgram(self, command) ==
    IF command.cmd = "Def"
    THEN [tag |-> "Ok", val |-> None,
          programs |-> Insert(self, command.name,
                              Program_new(command.num_args, command.commands))]
    ELSE IF command.name \notin DOMAIN self
    THEN [tag |-> "Err", err |-> [e |-> "ProgramNotFound", name |-> command.name],
          programs |-> self]
    ELSE
    Bind(Program_apply(self[command.name], command.args), LAMBDA r :
    IF r.tag # "Ok"
    THEN [tag |-> r.tag, err |-> r.err, programs |-> Remove(self, command.name)]
    ELSE [tag |-> "Ok", val |-> Some("{}", ToString(r.val)), programs |-> self])

\* a variant of TopLevel::apply that looks the name up with
\* entry().or_default(): a missing name gets an empty program, which is called
TopLevel_apply_EntryOrDefault(self, command) ==
    IF command.cmd = "Def"
    THEN [tag |-> "Ok", val |-> None,
          programs |-> Insert(self, command.name,
                              Program_new(command.num_args, command.commands))]
    ELSE
    Bind(IF command.name \in DOMAIN self THEN self
         ELSE Insert(self, command.name, Program_new(0, <<>>)), LAMBDA map :
    Bind(Program_apply(map[command.name], command.args), LAMBDA r :
    IF r.tag # "Ok" THEN [tag |-> r.tag, err |-> r.err, programs |-> map]
    ELSE [tag |-> "Ok", val |-> Some("{}", ToString(r.val)), programs |-> map]))

\* a variant of TopLevel::apply whose Def starts the registry afresh
TopLevel_apply_DefResets(self, command) ==
    IF command.cmd = "Def"
    THEN [tag |-> "Ok", val |-> None,
          programs |-> Insert(<<>>, command.name,
                              Program_new(command.num_args, command.commands))]
    ELSE IF command.name \notin DOMAIN self
    THEN [tag |-> "Err", err |-> [e |-> "ProgramNotFound", name |-> command.name],
          programs |-> self]
    ELSE
    Bind(Program_apply(self[command.name], command.args), LAMBDA r :
    IF r.tag # "Ok" THEN [tag |-> r.tag, err |-> r.err, programs |-> self]
    ELSE [tag |-> "Ok", val |-> Some("{}", ToString(r.val)), programs |-> self])

\* a variant of TopLevel::apply that takes the program out of the registry
\* with remove() to call it
TopLevel_apply_RemoveOnCall(self, command) ==
    IF command.cmd = "Def"
    THEN [tag |-> "Ok", val |-> None,
          programs |-> Insert(self, command.name,
                              Program_new(command.num_args, command.commands))]
    ELSE IF command.name \notin DOMAIN self
    THEN [tag |-> "Err", err |-> [e |-> "ProgramNotFound", name |-> command.name],
          programs |-> self]
    ELSE
    Bind(Program_apply(self[command.name], command.args), LAMBDA r :
    IF r.tag # "Ok"
    THEN [tag |-> r.tag, err |-> r.err, programs |-> Remove(self, command.name)]
    ELSE [tag |-> "Ok", val |-> Some("{}", ToString(r.val)),
          programs |-> Remove(self, command.name)])

\* a variant of TopLevel::apply whose Def runs the body once, on an empty
\* stack, and registers the program only if that succeeds
TopLevel_apply_DefRunsBody(self, command) ==
    IF command.cmd = "Def"
    THEN Bind(try_fold(Stack(<<>>), command.commands), LAMBDA t :
         IF t.tag # "Ok"
         THEN [tag |-> t.tag, err |-> ProgramError(t.err), programs |-> self]
         ELSE [tag |-> "Ok", val |-> None,
               programs |-> Insert(self, command.name,
                                   Program_new(command.num_args, command.commands))])
    ELSE IF command.name \notin DOMAIN self
    THEN [tag |-> "Err", err |-> [e |-> "ProgramNotFound", name |-> command.name],
          programs |-> self]
    ELSE
    Bind(Program_apply(self[command.name], command.args), LAMBDA r :
    IF r.tag # "Ok" THEN [tag |-> r.tag, err |-> r.err, programs |-> self]
    ELSE [tag |-> "Ok", val |-> Some("{}", ToString(r.val)), programs |-> self])

\* TopLevel::apply: the registry afterwards and the Result<Option<String>, Error>
TopLevel_apply(self, command) ==
    IF command.cmd = "Def"
    THEN [tag |-> "Ok", val |-> None,
          programs |-> Insert(self, command.name,
                              Program_new(command.num_args, command.commands))]
    ELSE IF command.name \notin DOMAIN self
    THEN [tag |-> "Err", err |-> [e |-> "ProgramNotFound", name |-> command.name],
          programs |-> self]
    ELSE
    Bind(Program_apply(self[command.name], command.args), LAMBDA r :
    IF r.tag # "Ok" THEN [tag |-> r.tag, err |-> r.err, programs |-> self]
    ELSE [tag |-> "Ok", val |-> Some("{}", ToString(r.val)), programs |-> self])

\* TopLevel::interpret: the registry afterwards and the Option<String> printed
interpret(self, sexp) ==
    IF sexp.t # "List"
    THEN [tag |-> "Ok", programs |-> self, output |-> Some("{}", sexp)]
    ELSE
    Bind(TopLevelCommand_read(sexp.items), LAMBDA cmd :
    IF cmd.tag # "Ok"
    THEN [tag |-> "Ok", programs |-> self, output |-> Some("Error: {:?}", cmd.err)]
    ELSE
    Bind(TopLevel_apply(self, cmd.val), LAMBDA r :
    IF r.tag = "Panic" THEN [tag |-> "Panic", err |-> r.err, programs |-> self]
    ELSE IF r.tag = "Err"
    THEN [tag |-> "Ok", programs |-> r.programs, output |-> Some("error: {:?}", r.err)]
    ELSE [tag |-> "Ok", programs |-> r.programs, output |-> r.val]))

----------------------------------------------------------------------------
(* Bounds and input sets                                                    *)

MaxDepth == 3

MaxBody == 2

MaxArgs == 2

SeqsUpTo(S, n) == UNION {[1..k -> S] : k \in 0..n}

\* the quoted sequences that occur as stack values and in program bodies
QuotedSeqs ==
    { <<>>,
      <<CInteger(2), CBuiltIn("Mul")>>,
      <<CBuiltIn("Pop"), CInteger(1)>>,
      <<CExecutableSequence(<<CBuiltIn("Pop")>>), CBuiltIn("Exec"), CInteger(1)>> }

\* the limits of i128, the small values, and an index whose low usize bits are 1
StackInts == {I128_MIN, 0 - 1, 0, 1, 2, Pow2(UsizeBits) + 1, I128_MAX}

StackValues ==
    {SInteger(i) : i \in StackInts} \cup {SExecutableSequence(q) : q \in QuotedSeqs}

\* the values that lie below the operands of the deepest stacks
BelowValues == {SInteger(1), SExecutableSequence(<<CBuiltIn("Pop"), CInteger(1)>>)}

\* the stacks a built-in is applied to: every stack of up to MaxDepth values,
\* and every stack of MaxDepth values with one more value below them
Stacks ==
    SeqsUpTo(StackValues, MaxDepth)
    \cup {<<b>> \o t : b \in BelowValues, t \in [1..MaxDepth -> StackValues]}

\* the commands that push a value: integers and quoted sequences
LiteralCommands ==
    {CInteger(i) : i \in {0, I128_MIN}} \cup {CExecutableSequence(q) : q \in QuotedSeqs}

BodyCommands ==
    {CInteger(0), CInteger(1)}
    \cup {CBuiltIn(b) : b \in {"Sub", "Div", "Pop", "Swap", "Sel", "Nget", "Exec"}}
    \cup {CExecutableSequence(q) : q \in QuotedSeqs \ {<<>>, <<CInteger(2), CBuiltIn("Mul")>>}}

ArgValues == {1, 2}

----------------------------------------------------------------------------
(* The pure functions under their inputs                                    *)

TopIdle ==
    /\ programs = <<>>
    /\ host = "running"
    /\ request = NoRequest
    /\ response = None
    /\ latest = <<>>
    /\ memo = NoMemo

BuiltinIdle == stack = <<>> /\ builtin = "none" /\ literal = NoCommand /\ out = NoResult

ReadIdle == tree = NoRequest /\ translated = NoResult

ApplyIdle == prog = NoProgram /\ args = <<>> /\ result = NoResult

LispIdle == runtime = [env |-> <<>>] /\ evaluated = NoResult /\ assigned = <<>>

InitBuiltin ==
    /\ overflow_checks \in BOOLEAN
    /\ stack \in Stacks
    /\ builtin = "none"
    /\ literal = NoCommand
    /\ out = NoResult
    /\ TopIdle
    /\ ApplyIdle
    /\ ReadIdle
    /\ LispIdle

\* Program::apply_builtin(stack, &b)
ApplyBuiltin(b) ==
    /\ builtin = "none"
    /\ literal = NoCommand
    /\ builtin' = b
    /\ out' = apply_builtin(Stack(stack), b)
    /\ UNCHANGED <<overflow_checks, programs, host, request, response, latest,
                   stack, prog, args, result, literal, tree, translated, memo,
                   runtime, evaluated, assigned>>

\* Program::apply_command(stack, &c) for a command c that is a literal
ApplyCommand(c) ==
    /\ builtin = "none"
    /\ literal = NoCommand
    /\ literal' = c
    /\ out' = apply_command(Stack(stack), c)
    /\ UNCHANGED <<overflow_checks, programs, host, request, response, latest,
                   stack, builtin, prog, args, result, tree, translated, memo,
                   runtime, evaluated, assigned>>

NextBuiltin ==
    \/ \E b \in BuiltIns : ApplyBuiltin(b)
    \/ \E c \in LiteralCommands : ApplyCommand(c)

SpecBuiltin == InitBuiltin /\ [][NextBuiltin]_vars

InitApply ==
    /\ overflow_checks \in BOOLEAN
    /\ prog \in {Program_new(n, c) : n \in 0..MaxArgs, c \in SeqsUpTo(BodyCommands, MaxBody)}
    /\ args \in SeqsUpTo(ArgValues, MaxArgs)
    /\ result = NoResult
    /\ TopIdle
    /\ BuiltinIdle
    /\ ReadIdle
    /\ LispIdle

\* program.apply(args)
Apply ==
    /\ result = NoResult
    /\ result' = Program_apply(prog, args)
    /\ UNCHANGED <<overflow_checks, programs, host, request, response, latest,
                   stack, builtin, out, prog, args, literal, tree, translated, memo,
                   runtime, evaluated, assigned>>

NextApply == Apply

SpecApply == InitApply /\ [][NextApply]_vars

----------------------------------------------------------------------------
(* The translation of symbolic expressions, under every tree of up to       *)
(* MaxNodes nodes                                                           *)

MaxNodes == 4

\* the nodes without children: an integer, a built-in name, a symbol that
\* names no built-in, a float and a string
TreeLeaves ==
    {XInteger(1), XSymbol("rem"), XSymbol("frob"), XFloat("1.5"), XString("s")}

RECURSIVE TreesOfSize(_)
RECURSIVE ForestsOfSize(_)

\* the sequences of trees with k nodes in all
ForestsOfSize(k) ==
    IF k = 0 THEN {<<>>}
    ELSE UNION {{<<t>> \o f : t \in TreesOfSize(j), f \in ForestsOfSize(k - j)} : j \in 1..k}

\* the trees with exactly n nodes
TreesOfSize(n) ==
    (IF n = 1 THEN TreeLeaves ELSE {}) \cup {XList(f) : f \in ForestsOfSize(n - 1)}

Trees == UNION {TreesOfSize(n) : n \in 1..MaxNodes}

InitRead ==
    /\ overflow_checks \in BOOLEAN
    /\ tree \in Trees
    /\ translated = NoResult
    /\ TopIdle
    /\ BuiltinIdle
    /\ ApplyIdle
    /\ LispIdle

\* Command::eval(tree)
Translate ==
    /\ translated = NoResult
    /\ translated' = Command_eval(tree)
    /\ UNCHANGED <<overflow_checks, programs, host, request, response, latest,
                   stack, builtin, out, prog, args, result, literal, tree, memo,
                   runtime, evaluated, assigned>>

NextRead == Translate

SpecRead == InitRead /\ [][NextRead]_vars

----------------------------------------------------------------------------
(* The session: requests handed to TopLevel::interpret one after another    *)

MaxCallArgs == 2

MaxDefCount == 2

DefNames == {"foo", "sub"}

\* arity and body of the (def name arity body...) requests: three that
\* translate, three that do not
DefForms ==
    { <<2, <<XSymbol("pop")>> >>,
      <<1, <<XSymbol("sub")>> >>,
      <<1, <<XList(<<XInteger(2), XSymbol("mul")>>), XSymbol("exec")>> >>,
      <<2, <<XInteger(1), XFloat("1.5")>> >>,
      <<2, <<XSymbol("frob"), XString("s")>> >>,
      <<1, <<XList(<<XInteger(1), XString("s")>>), XSymbol("frob")>> >> }

DefRequests ==
    { XList(<<XSymbol("def"), XSymbol(n), XInteger(f[1])>> \o f[2]) :
        n \in DefNames, f \in DefForms }

CallNames == {"foo", "sub", "div", "bar"}

CallArgValues == {0, 2}

CallRequests ==
    { XList(<<XSymbol(n)>> \o [i \in 1..Len(a) |-> XInteger(a[i])]) :
        n \in CallNames, a \in SeqsUpTo(CallArgValues, MaxCallArgs) }

OtherRequests ==
    { XList(<<>>),
      XList(<<XInteger(1), XInteger(2)>>),
      XList(<<XSymbol("def")>>),
      XList(<<XSymbol("def"), XSymbol("foo")>>),
      XList(<<XSymbol("def"), XInteger(1), XInteger(2)>>),
      XList(<<XSymbol("def"), XSymbol("foo"), XSymbol("bar")>>),
      XList(<<XSymbol("foo"), XInteger(1), XSymbol("x")>>),
      XList(<<XSymbol("bar"), XFloat("1.5")>>),
      XList(<<XSymbol("sub"), XFloat("1.5"), XSymbol("x")>>),
      XList(<<XSymbol("rem"), XInteger(2), XInteger(0)>>),
      XList(<<XSymbol("exec")>>),
      XInteger(7) }

Requests == DefRequests \cup CallRequests \cup OtherRequests

Min(a, b) == IF a < b THEN a ELSE b

\* history: the successful Defs seen so far, per name, with the arity as it
\* was written in the last one
Recorded(hist, sexp) ==
    IF sexp.t # "List" THEN hist ELSE
    Bind(TopLevelCommand_read(sexp.items), LAMBDA cmd :
    IF cmd.tag # "Ok" \/ cmd.val.cmd # "Def" THEN hist ELSE
    Insert(hist, cmd.val.name,
           [count |-> IF cmd.val.name \in DOMAIN hist
                      THEN Min(hist[cmd.val.name].count + 1, MaxDefCount) ELSE 1,
            written |-> sexp.items[3].val,
            program |-> Program_new(cmd.val.num_args, cmd.val.commands)]))

Init ==
    /\ overflow_checks \in BOOLEAN
    /\ programs = TopLevel_new
    /\ host = "running"
    /\ request = NoRequest
    /\ response = None
    /\ latest = <<>>
    /\ memo = NoMemo
    /\ BuiltinIdle
    /\ ApplyIdle
    /\ ReadIdle
    /\ LispIdle

\* top_level.interpret(sexp) and what it does to the session
Answer(sexp) ==
    /\ host = "running"
    /\ request' = sexp
    /\ LET r == interpret(programs, sexp) IN
       IF r.tag = "Panic"
       THEN /\ host' = "aborted"
            /\ response' = [some |-> FALSE, fmt |-> "panic", arg |-> r.err]
            /\ UNCHANGED <<programs, latest>>
       ELSE /\ host' = host
            /\ response' = r.output
            /\ programs' = r.programs
            /\ latest' = Recorded(latest, sexp)
    /\ UNCHANGED <<overflow_checks, stack, builtin, out, prog, args, result,
                   literal, tree, translated, runtime, evaluated, assigned>>

\* one turn of the read-eval-print loop: top_level.interpret(sexp)
Interpret(sexp) == Answer(sexp) /\ UNCHANGED memo

Next == \E sexp \in Requests : Interpret(sexp)

Spec == Init /\ [][Next]_vars

----------------------------------------------------------------------------
(* The session again, over a few requests, with the history `memo`: the     *)
(* first Call answered since the last Def of its name, its answer, whether  *)
(* other requests were served since, and whether it was made again          *)

RepeatDefs ==
    { XList(<<XSymbol("def"), XSymbol("foo"), XInteger(1),
              XList(<<XInteger(2), XSymbol("mul")>>), XSymbol("exec")>>),
      XList(<<XSymbol("def"), XSymbol("foo"), XInteger(2), XSymbol("pop")>>),
      XList(<<XSymbol("def"), XSymbol("sub"), XInteger(1), XSymbol("sub")>>) }

RepeatCalls ==
    { XList(<<XSymbol("foo"), XInteger(2)>>),
      XList(<<XSymbol("foo"), XInteger(2), XInteger(0)>>),
      XList(<<XSymbol("sub"), XInteger(2), XInteger(0)>>),
      XList(<<XSymbol("sub"), XInteger(0)>>),
      XList(<<XSymbol("div"), XInteger(0), XInteger(2)>>),
      XList(<<XSymbol("bar"), XInteger(2)>>) }

\* the request is a Def that succeeded, of the name the remembered Call names
Redefines(sexp, resp, m) ==
    /\ m.some
    /\ sexp.items[1].name = "def"
    /\ ~resp.some
    /\ resp.fmt = ""
    /\ sexp.items[2].name = m.request.items[1].name

Remember(m, sexp, resp, running) ==
    IF ~running THEN m
    ELSE IF Redefines(sexp, resp, m) THEN NoMemo
    ELSE IF ~m.some
    THEN IF sexp \in RepeatCalls
         THEN [some |-> TRUE, request |-> sexp, answer |-> resp,
               between |-> FALSE, again |-> FALSE]
         ELSE m
    ELSE IF sexp = m.request THEN [m EXCEPT !.again = TRUE]
    ELSE [m EXCEPT !.between = TRUE]

InterpretAgain(sexp) ==
    /\ Answer(sexp)
    /\ memo' = Remember(memo, sexp, response', host' = "running")

NextRepeat == \E sexp \in RepeatDefs \cup RepeatCalls : InterpretAgain(sexp)

SpecRepeat == Init /\ [][NextRepeat]_vars

----------------------------------------------------------------------------
(* The session once more, over definitions whose calls fail and definitions *)
(* written with a negative arity                                            *)

\* a negative arity whose low usize bits are 1
NegativeAliasOfOne == 1 - Pow2(UsizeBits)

DeferredDefs ==
    { XList(<<XSymbol("def"), XSymbol("foo"), XInteger(0), XSymbol("pop")>>),
      XList(<<XSymbol("def"), XSymbol("foo"), XInteger(0), XList(<<XInteger(1)>>)>>),
      XList(<<XSymbol("def"), XSymbol("foo"), XInteger(1), XInteger(2), XSymbol("mul")>>),
      XList(<<XSymbol("def"), XSymbol("foo"), XInteger(0), XSymbol("frob")>>),
      XList(<<XSymbol("def"), XSymbol("neg"), XInteger(0 - 1)>>),
      XList(<<XSymbol("def"), XSymbol("neg"), XInteger(NegativeAliasOfOne)>>) }

DeferredCalls ==
    { XList(<<XSymbol(n)>> \o [i \in 1..Len(a) |-> XInteger(a[i])]) :
        n \in {"foo", "neg"}, a \in {<<>>, <<2>>, <<2, 0>>} }

NextDef == \E sexp \in DeferredDefs \cup DeferredCalls : Interpret(sexp)

SpecDef == Init /\ [][NextDef]_vars

----------------------------------------------------------------------------
(* The Lisp evaluator (lisp/src/lib.rs, lisp/src/list.rs,                   *)
(* lisp/src/interpreter.rs).  A List built from a symbolic expression is a  *)
(* chain of cells ending in Nil: it is modelled by the sequence of the      *)
(* firsts of its cells.                                                     *)

VList(items) == [k |-> "List", items |-> items]

VSymbol(name) == [k |-> "Symbol", name |-> name]

VString(content) == [k |-> "String", content |-> content]

VInteger(i) == [k |-> "Integer", val |-> i]

VDouble(repr) == [k |-> "Double", repr |-> repr]

VBool(b) == [k |-> "Bool", b |-> b]

VLispFn(a, body, env) == [k |-> "LispFn", args |-> a, body |-> body, env |-> env]

\* Symbol::read: the names true and false are read as booleans
Symbol_read(name) ==
    IF name = "true" THEN VBool(TRUE)
    ELSE IF name = "false" THEN VBool(FALSE)
    ELSE VSymbol(name)

RECURSIVE Value_from(_)
\* impl From<SExp> for Value
Value_from(sexp) ==
    CASE sexp.t = "List" ->
            VList([i \in 1..Len(sexp.items) |-> Value_from(sexp.items[i])])
      [] sexp.t = "Integer" -> VInteger(sexp.val)
      [] sexp.t = "Float" -> VDouble(sexp.repr)
      [] sexp.t = "String" -> VString(sexp.content)
      [] sexp.t = "Symbol" -> Symbol_read(sexp.name)

List_first(list) ==
    IF list = <<>> THEN [tag |-> "None"] ELSE [tag |-> "Some", val |-> Head(list)]

List_rest(list) ==
    IF list = <<>> THEN [tag |-> "None"] ELSE [tag |-> "Some", val |-> VList(Tail(list))]

List_nth(list, idx) ==
    IF idx + 1 <= Len(list) THEN [tag |-> "Some", val |-> list[idx + 1]]
    ELSE [tag |-> "None"]

List_second(list) == List_nth(list, 1)

Value_into_symbol(v) ==
    IF v.k = "Symbol" THEN [tag |-> "Some", val |-> v.name] ELSE [tag |-> "None"]

Value_into_list(v) ==
    IF v.k = "List" THEN [tag |-> "Some", val |-> v.items] ELSE [tag |-> "None"]

Value_is_atom(v) == v.k # "List"

Value_is_truthy(v) ==
    ~((v.k = "Bool" /\ ~v.b) \/ (v.k = "List" /\ v.items = <<>>))

\* a variant of Env::update that keeps the value of a name already bound
Env_update_KeepExisting(self, name, value) ==
    [n \in DOMAIN self \cup {name} |-> IF n \in DOMAIN self THEN self[n] ELSE value]

\* Env::update: HashMap::insert
Env_update(self, name, value) ==
    [n \in DOMAIN self \cup {name} |-> IF n = name THEN value ELSE self[n]]

\* Env::lookup: HashMap::get, cloned
Env_lookup(self, name) ==
    IF name \in DOMAIN self THEN [tag |-> "Some", val |-> self[name]]
    ELSE [tag |-> "None"]

\* A Runtime is its env together with a history `log`: one entry per symbol
\* looked up ("get") and per set! completed ("set") during an evaluation
Runtime(env) == [env |-> env, log |-> <<>>]

Runtime_new == [env |-> <<>>]

Noted(self, ev, name, found, value) ==
    [self EXCEPT !.log = Append(@, [ev |-> ev, name |-> name, found |-> found,
                                    val |-> value])]

\* Ok(value), with the runtime as the evaluation leaves it
Done(value, self) == [tag |-> "Ok", val |-> value, rt |-> self]

\* Err(e), with the runtime as the evaluation leaves it
Raise(e, self) == [tag |-> "Err", err |-> e, rt |-> self]

\* `let x = o.ok_or(e)?;`
Need(o, e, self, K(_)) == IF o.tag = "None" THEN Raise(e, self) ELSE K(o.val)

RECURSIVE eval(_, _)
RECURSIVE eprogn_while(_, _, _)

\* a variant of the loop of eprogn that goes on after an expression that fails
eprogn_while_GoesOn(self, exprs, last) ==
    IF exprs.k = "List" /\ exprs.items # <<>>
    THEN Bind(eval(self, Head(exprs.items)), LAMBDA r :
         IF r.tag = "Ok" THEN eprogn_while(r.rt, VList(Tail(exprs.items)), r.val)
         ELSE eprogn_while(r.rt, VList(Tail(exprs.items)), last))
    ELSE Done(last, self)

\* the while loop of Runtime::eprogn
eprogn_while(self, exprs, last) ==
    IF exprs.k = "List" /\ exprs.items # <<>>
    THEN TryT(eval(self, Head(exprs.items)), LAMBDA r :
         eprogn_while(r.rt, VList(Tail(exprs.items)), r.val))
    ELSE Done(last, self)

eprogn(self, exprs) == eprogn_while(self, exprs, VInteger(813))

make_function(self, a, body) == Done(VLispFn(a, body, self.env), self)

evlist(self, values) == Raise("NotImplemented", self)

\* Runtime::eval.  The empty list reaches unreachable!(), a panic.
eval(self, expr) ==
    IF Value_is_atom(expr)
    THEN IF expr.k = "Symbol"
         THEN Bind(Env_lookup(self.env, expr.name), LAMBDA o :
              IF o.tag = "None"
              THEN Raise("UndefinedSymbol",
                         Noted(self, "get", expr.name, FALSE, VList(<<>>)))
              ELSE Done(o.val, Noted(self, "get", expr.name, TRUE, o.val)))
         ELSE Done(expr, self)
    ELSE
    Bind(expr.items, LAMBDA list :
    IF List_first(list).tag = "None"
    THEN [tag |-> "Panic", err |-> "internal error: entered unreachable code", rt |-> self]
    ELSE
    Bind(Value_into_symbol(Head(list)), LAMBDA symbol :
    IF symbol.tag = "None" THEN Raise("NotAFunction", self) ELSE
    CASE symbol.val = "quote" ->
            Need(List_second(list), "QuoteError", self, LAMBDA v : Done(v, self))
      [] symbol.val = "if" ->
            Need(List_nth(list, 1), "IfError", self, LAMBDA condition :
            Need(List_nth(list, 2), "IfError", self, LAMBDA consequent :
            Need(List_nth(list, 3), "IfError", self, LAMBDA alternate :
            TryT(eval(self, condition), LAMBDA cond_res :
            IF Value_is_truthy(cond_res.val)
            THEN eval(cond_res.rt, consequent)
            ELSE eval(cond_res.rt, alternate)))))
      [] symbol.val = "begin" ->
            Need(List_rest(list), "BeginError", self, LAMBDA rest : eprogn(self, rest))
      [] symbol.val = "set!" ->
            Need(List_nth(list, 1), "SetBangError", self, LAMBDA target :
            Need(Value_into_symbol(target), "SetBangError", self, LAMBDA name :
            Need(List_nth(list, 2), "SetBangError", self, LAMBDA to_eval :
            TryT(eval(self, to_eval), LAMBDA value :
            Done(VList(<<>>),
                 Noted([value.rt EXCEPT !.env = Env_update(@, name, value.val)],
                       "set", name, TRUE, value.val))))))
      [] symbol.val = "lambda" ->
            Need(List_nth(list, 1), "LambdaError", self, LAMBDA a1 :
            Need(Value_into_list(a1), "LambdaError", self, LAMBDA a :
            Need(List_rest(list), "LambdaError", self, LAMBDA r1 :
            Need(Value_into_list(r1), "LambdaError", self, LAMBDA l1 :
            Need(List_rest(l1), "LambdaError", self, LAMBDA r2 :
            Need(Value_into_list(r2), "LambdaError", self, LAMBDA body :
            make_function(self, a, body)))))))
      [] OTHER ->
            TryT(eval(self, VSymbol(symbol.val)), LAMBDA f :
            Need(List_rest(list), "InvokeError", f.rt, LAMBDA r1 :
            Need(Value_into_list(r1), "InvokeError", f.rt, LAMBDA a :
            TryT(evlist(f.rt, a), LAMBDA evaluated_args :
            Raise("NotImplemented", f.rt)))))))

\* Runtime::rep_iter: the Result of eval and the Option<String> returned
rep_iter(self, expr) ==
    Bind(eval(self, Value_from(expr)), LAMBDA r :
    [result |-> r,
     output |-> IF r.tag = "Ok" THEN Some("{:?}", r.val) ELSE Some("{:?}", r.err)])

----------------------------------------------------------------------------
(* The Lisp session: requests handed to Runtime::rep_iter one after another *)

MaxBegin == 3

\* the expressions written inside a begin: a value, a symbol that set! binds,
\* a set!, a symbol never bound, and a set! from a symbol
BeginParts ==
    { XInteger(100),
      XSymbol("a"),
      XList(<<XSymbol("set!"), XSymbol("a"), XInteger(2)>>),
      XSymbol("zzz"),
      XList(<<XSymbol("set!"), XSymbol("b"), XSymbol("a")>>) }

BeginForms == {XList(<<XSymbol("begin")>> \o es) : es \in SeqsUpTo(BeginParts, MaxBegin)}

\* a set! whose expression sets b and then fails
SetFailingAfterSet ==
    XList(<<XSymbol("set!"), XSymbol("a"),
            XList(<<XSymbol("begin"),
                    XList(<<XSymbol("set!"), XSymbol("b"), XInteger(3)>>),
                    XSymbol("zzz")>>)>>)

SetForms ==
    { XList(<<XSymbol("set!"), XSymbol("a"), XInteger(1)>>),
      XList(<<XSymbol("set!"), XSymbol("b"), XSymbol("a")>>),
      XList(<<XSymbol("set!"), XSymbol("a"), XSymbol("zzz")>>),
      XList(<<XSymbol("set!"), XSymbol("a"),
              XList(<<XSymbol("quote"), XList(<<XSymbol("b")>>)>>)>>),
      SetFailingAfterSet,
      XList(<<XSymbol("set!"), XSymbol("a")>>),
      XList(<<XSymbol("set!"), XInteger(1), XInteger(2)>>),
      XList(<<XSymbol("set!"), XSymbol("true"), XInteger(2)>>) }

OtherForms ==
    { XSymbol("a"), XSymbol("b"), XSymbol("zzz"), XSymbol("true"),
      XInteger(100), XFloat("1.5"), XString("s"),
      XList(<<XSymbol("quote"), XSymbol("a")>>),
      XList(<<XSymbol("quote")>>),
      XList(<<XSymbol("if"), XSymbol("a"), XInteger(1), XSymbol("zzz")>>),
      XList(<<XSymbol("if"), XSymbol("false"), XSymbol("zzz"), XSymbol("b")>>),
      XList(<<XSymbol("if"), XInteger(1), XInteger(2)>>),
      XList(<<XSymbol("lambda"), XList(<<XSymbol("x")>>), XSymbol("x")>>),
      XList(<<XSymbol("lambda"), XSymbol("x")>>),
      XList(<<XSymbol("lambda")>>),
      XList(<<XSymbol("a"), XInteger(1)>>),
      XList(<<XInteger(1), XInteger(2)>>),
      XList(<<>>) }

\* the begin forms of the session: the empty one, the one of the source's
\* test, and one that fails between two set!s
SessionBegins ==
    { XList(<<XSymbol("begin")>>),
      XList(<<XSymbol("begin"),
              XList(<<XSymbol("set!"), XSymbol("a"), XInteger(2)>>), XSymbol("a")>>),
      XList(<<XSymbol("begin"),
              XList(<<XSymbol("set!"), XSymbol("b"), XSymbol("a")>>), XSymbol("zzz"),
              XList(<<XSymbol("set!"), XSymbol("a"), XInteger(2)>>)>>) }

LispForms == SessionBegins \cup SetForms \cup OtherForms

\* the environments that set! reaches over the symbols a and b
LispEnvs ==
    UNION { [names -> {VInteger(1), VInteger(2)}] : names \in SUBSET {"a", "b"} }

RECURSIVE Replay(_, _)
\* history: the values of the set!s completed, in the order of the log
Replay(hist, h) ==
    IF h = <<>> THEN hist
    ELSE Replay(IF Head(h).ev = "set"
                THEN [n \in DOMAIN hist \cup {Head(h).name} |->
                         IF n = Head(h).name THEN Head(h).val ELSE hist[n]]
                ELSE hist,
                Tail(h))

InitLisp ==
    /\ overflow_checks \in BOOLEAN
    /\ runtime = Runtime_new
    /\ evaluated = NoResult
    /\ assigned = <<>>
    /\ TopIdle
    /\ BuiltinIdle
    /\ ApplyIdle
    /\ ReadIdle

\* one turn of the read-eval-print loop: runtime.rep_iter(expr)
Evaluate(expr) ==
    /\ host = "running"
    /\ request' = expr
    /\ LET r == rep_iter(Runtime(runtime.env), expr) IN
       /\ evaluated' = r.result
       /\ runtime' = [env |-> r.result.rt.env]
       /\ assigned' = Replay(assigned, r.result.rt.log)
       /\ IF r.result.tag = "Panic"
          THEN /\ host' = "aborted"
               /\ response' = [some |-> FALSE, fmt |-> "panic", arg |-> r.result.err]
          ELSE /\ host' = host
               /\ response' = r.output
    /\ UNCHANGED <<overflow_checks, programs, latest, memo, stack, builtin, out,
                   prog, args, result, literal, tree, translated>>

NextLisp == \E expr \in LispForms : Evaluate(expr)

SpecLisp == InitLisp /\ [][NextLisp]_vars

\* one begin form evaluated in a runtime with one of the environments
InitBegin ==
    /\ overflow_checks \in BOOLEAN
    /\ runtime \in {[env |-> e] : e \in LispEnvs}
    /\ evaluated = NoResult
    /\ assigned = runtime.env
    /\ TopIdle
    /\ BuiltinIdle
    /\ ApplyIdle
    /\ ReadIdle

NextBegin == request = NoRequest /\ \E expr \in BeginForms : Evaluate(expr)

SpecBegin == InitBegin /\ [][NextBegin]_vars

----------------------------------------------------------------------------
(* Properties of Program::apply, checked under SpecApply                    *)

Applied == result # NoResult

ArityMatches == prog.num_args = Len(args)

\* the fold of the body over the seeded stack, as Program::apply runs it
BodyFold == try_fold(SeedStack(args), prog.commands)

\* what a history entry's command does on the stack it started from
Outcome(entry) == apply_command(Stack(entry.before), entry.cmd)

\* C1: a program of arity k applied to m # k arguments returns
\* WrongNumberOfArgs{expected: k, actual: m} and starts no command of its
\* body, whatever the body would do.
C1_ArityEnforcement ==
    (Applied /\ ~ArityMatches) =>
        /\ result.tag = "Err"
        /\ result.err.e = "WrongNumberOfArgs"
        /\ result.err.expected = prog.num_args
        /\ result.err.actual = Len(args)
        /\ result.log = <<>>

\* arity 1 and two arguments, with a body that would divide by zero
C1_Witness ==
    /\ Applied
    /\ prog = Program_new(1, <<CInteger(0), CBuiltIn("Div")>>)
    /\ args = <<1, 2>>
    /\ result.tag = "Err"
    /\ result.err.e = "WrongNumberOfArgs"
    /\ result.log = <<>>

\* C7: the initial stack holds the arguments in reverse order, the last
\* argument at the bottom and the first on top: the first command of the
\* body starts from that stack, and an empty body returns the first argument.
C7_SeedReversed ==
    (Applied /\ ArityMatches) =>
        /\ prog.commands # <<>> =>
              /\ Len(result.log) >= 1
              /\ result.log[1].before =
                    [i \in 1..Len(args) |-> SInteger(args[Len(args) + 1 - i])]
        /\ (prog.commands = <<>> /\ args # <<>>) =>
              (result.tag = "Ok" /\ result.val = args[1])

C7_Witness ==
    /\ Applied
    /\ prog.num_args = 2
    /\ args = <<1, 2>>
    /\ prog.commands = <<CBuiltIn("Pop")>>
    /\ result.log[1].before = <<SInteger(2), SInteger(1)>>
    /\ result.tag = "Ok"
    /\ result.val = 2

IsSubOfTwoAndOne ==
    Applied /\ prog = Program_new(2, <<CBuiltIn("Sub")>>) /\ args = <<2, 1>>

\* C8 as stated: arity 2, body Sub, called with [2, 1], returns 1.
C8_Original == IsSubOfTwoAndOne => (result.tag = "Ok" /\ result.val = 1)

\* C8, amended: arity 2, body Sub, called with [2, 1], returns -1: the first
\* argument is on top and is the right operand, so Sub computes 1 - 2.
C8_SubReturnsMinusOne == IsSubOfTwoAndOne => (result.tag = "Ok" /\ result.val = 0 - 1)

C8_Witness == IsSubOfTwoAndOne /\ result.tag = "Ok" /\ result.val = 0 - 1

\* C9: after a body evaluated without error the result is decided by the top
\* of the final stack alone: its Integer is returned, an executable sequence
\* gives FinalValueNotAnInteger, an empty stack gives NotEnoughValues; what
\* lies below the top changes nothing.
C9_ResultIsTopOfFinalStack ==
    (Applied /\ ArityMatches /\ BodyFold.tag = "Ok") =>
        IF BodyFold.stack.v = <<>>
        THEN result.tag = "Err" /\ result.err = ProgramError("NotEnoughValues")
        ELSE IF Last(BodyFold.stack.v).kind = "Integer"
        THEN result.tag = "Ok" /\ result.val = Last(BodyFold.stack.v).val
        ELSE result.tag = "Err" /\ result.err = ProgramError("FinalValueNotAnInteger")

\* an Integer is returned from above a quoted sequence left on the stack
C9_Witness ==
    /\ Applied
    /\ ArityMatches
    /\ BodyFold.tag = "Ok"
    /\ Len(BodyFold.stack.v) >= 2
    /\ BodyFold.stack.v[1].kind = "ExecutableSequence"
    /\ result.tag = "Ok"

\* C10: the commands of a body run from left to right and the first failure
\* ends the evaluation: if command j is the first to fail, the error
\* returned is the error of command j, the history ends with what command j
\* ran, the last command started is the one that failed, every command
\* started earlier succeeded or is an Exec enclosing the failure, and the
\* failed fold returns no stack.
C10_FoldAbortsAtFirstFailure ==
    (Applied /\ ArityMatches) =>
        /\ \A j \in 1..Len(prog.commands) :
              LET pre == try_fold(SeedStack(args), SubSeq(prog.commands, 1, j - 1)) IN
              (pre.tag = "Ok" /\ apply_command(pre.stack, prog.commands[j]).tag = "Err") =>
                  LET c == apply_command(pre.stack, prog.commands[j]) IN
                  /\ result.tag = "Err"
                  /\ result.err = ProgramError(c.err)
                  /\ result.log = c.log
        /\ BodyFold.tag = "Err" =>
              /\ "stack" \notin DOMAIN BodyFold
              /\ result.tag = "Err"
              /\ result.log # <<>>
              /\ result.log[1].cmd = prog.commands[1]
              /\ Outcome(Last(result.log)).tag = "Err"
              /\ result.err = ProgramError(Outcome(Last(result.log)).err)
              /\ Len(Outcome(Last(result.log)).log) = 1
              /\ \A i \in 1..(Len(result.log) - 1) :
                    \/ Outcome(result.log[i]).tag = "Ok"
                    \/ /\ result.log[i].cmd = CBuiltIn("Exec")
                       /\ Outcome(result.log[i]).tag = "Err"

\* a Pop fails two Execs deep: neither the 1 after the inner Exec nor
\* anything else runs after it
C10_Witness ==
    /\ Applied
    /\ args = <<>>
    /\ prog = Program_new(0,
          <<CExecutableSequence(<<CExecutableSequence(<<CBuiltIn("Pop")>>),
                                  CBuiltIn("Exec"), CInteger(1)>>),
            CBuiltIn("Exec")>>)
    /\ result.tag = "Err"
    /\ result.err = ProgramError("NotEnoughValues")
    /\ Len(result.log) = 5
    /\ Last(result.log).cmd = CBuiltIn("Pop")

RECURSIVE Occurrences(_)
\* the number of command occurrences of a body, at every nesting depth
Occurrences(cmds) ==
    IF cmds = <<>> THEN 0
    ELSE 1 + (IF Head(cmds).tag = "ExecutableSequence" THEN Occurrences(Head(cmds).cmds) ELSE 0)
           + Occurrences(Tail(cmds))

\* C27 as stated: Program::apply finishes with a value or an error for every
\* body and every argument list, and starts each command occurrence of the
\* body at most once.
C27_Original ==
    Applied =>
        /\ result.tag \in {"Ok", "Err"}
        /\ Len(result.log) <= Occurrences(prog.commands)

RECURSIVE QuotedLiterals(_)
\* the quoted literals that occur in a sequence of commands, at any depth
QuotedLiterals(cmds) ==
    UNION { IF cmds[i].tag = "ExecutableSequence"
            THEN {cmds[i].cmds} \cup QuotedLiterals(cmds[i].cmds)
            ELSE {} : i \in 1..Len(cmds) }

\* the executable sequences held by a stack
SequencesOn(v) == {v[j].cmds : j \in {k \in 1..Len(v) : v[k].kind = "ExecutableSequence"}}

\* C32: the stack an invocation starts from holds Integers only, and every
\* executable sequence on the stack, before each command started and after
\* the last one, is equal to a quoted literal of the body of the program
\* invoked, at some nesting depth.
C32_SequencesComeFromLiterals ==
    (Applied /\ ArityMatches) =>
        /\ SequencesOn(SeedStack(args).v) = {}
        /\ \A i \in 1..Len(result.log) :
              SequencesOn(result.log[i].before) \subseteq QuotedLiterals(prog.commands)
        /\ BodyFold.tag = "Ok" =>
              SequencesOn(BodyFold.stack.v) \subseteq QuotedLiterals(prog.commands)

\* the body ((pop) exec 1) exec on the argument 1: the inner literal (pop)
\* lies on the stack when the inner exec starts
C32_Witness ==
    /\ Applied
    /\ args = <<1>>
    /\ prog = Program_new(1, <<CExecutableSequence(<<CExecutableSequence(<<CBuiltIn("Pop")>>),
                                                     CBuiltIn("Exec"), CInteger(1)>>),
                               CBuiltIn("Exec")>>)
    /\ result.tag = "Ok"
    /\ \E i \in 1..Len(result.log) :
          /\ result.log[i].cmd = CBuiltIn("Exec")
          /\ result.log[i].before = <<SInteger(1), SExecutableSequence(<<CBuiltIn("Pop")>>)>>

----------------------------------------------------------------------------
(* Properties of Program::apply_builtin, checked under SpecBuiltin          *)

\* the number of operands a built-in pops
Operands(b) ==
    CASE b \in {"Add", "Sub", "Mul", "Div", "Rem", "Eq", "Gt", "Lt", "Swap"} -> 2
      [] b = "Sel" -> 3
      [] b \in {"Pop", "Nget", "Exec"} -> 1

Underflow == builtin # "none" /\ Len(stack) < Operands(builtin)

\* C2 as stated: a built-in applied to fewer elements than it pops returns
\* NotEnoughValues, whatever the kinds of the elements present.
C2_Original == Underflow => (out.tag = "Err" /\ out.err = "NotEnoughValues")

\* an arithmetic or comparison operator finding a lone executable sequence
ConvertsBeforeSecondPop ==
    /\ builtin \in {"Add", "Sub", "Mul", "Div", "Rem", "Eq", "Gt", "Lt"}
    /\ Len(stack) = 1
    /\ stack[1].kind = "ExecutableSequence"

\* C2, amended: a built-in applied to fewer elements than it pops returns an
\* error and never aborts; the error is NotEnoughValues, except that Add,
\* Sub, Mul, Div, Rem, Eq, Gt and Lt applied to a single executable sequence
\* return NotANumber (the first operand is converted before the second is
\* popped).
C2_UnderflowIsAnError ==
    Underflow =>
        /\ out.tag = "Err"
        /\ out.err = IF ConvertsBeforeSecondPop THEN "NotANumber" ELSE "NotEnoughValues"

C2_Witness ==
    /\ builtin = "Add"
    /\ stack = <<SExecutableSequence(<<>>)>>
    /\ out.tag = "Err"
    /\ out.err = "NotANumber"

\* C3 as stated: Div or Rem with Integer 0 on top of an Integer returns an
\* error value and does not abort the host.
C3_Original ==
    ( /\ builtin \in {"Div", "Rem"}
      /\ Len(stack) >= 2
      /\ Last(stack).kind = "Integer"
      /\ Last(stack).val = 0
      /\ stack[Len(stack) - 1].kind = "Integer" ) => out.tag = "Err"

\* what a Result<Stack, Error> is to its caller: the stack, the error, or the abort
Observed(r) ==
    IF r.tag = "Ok" THEN [tag |-> "Ok", v |-> r.stack.v] ELSE [tag |-> r.tag, err |-> r.err]

\* the commands that follow an `exec` in a body
BodyTails == {<<>>, <<CBuiltIn("Pop")>>, <<CInteger(1), CBuiltIn("Swap")>>}

ExecOnQuoted ==
    builtin = "Exec" /\ stack # <<>> /\ Last(stack).kind = "ExecutableSequence"

\* C11: Exec applied to a stack T with the quoted sequence (c1 ... cn) on top
\* gives the result, stack or error, of evaluating c1 ... cn in order from T;
\* and a body with `(c1 ... cn) exec` evaluates as the body with c1 ... cn
\* written in its place.
C11_ExecRunsOnSameStack ==
    ExecOnQuoted =>
        /\ Observed(out) = Observed(try_fold(Stack(Front(stack)), Last(stack).cmds))
        /\ \A rest \in BodyTails :
              Observed(try_fold(Stack(Front(stack)),
                                <<CExecutableSequence(Last(stack).cmds), CBuiltIn("Exec")>>
                                    \o rest))
              = Observed(try_fold(Stack(Front(stack)), Last(stack).cmds \o rest))

\* (2 mul) run on the 2 that lies under it
C11_Witness ==
    /\ builtin = "Exec"
    /\ stack = <<SInteger(2), SExecutableSequence(<<CInteger(2), CBuiltIn("Mul")>>)>>
    /\ out.tag = "Ok"
    /\ out.stack.v = <<SInteger(4)>>

IsArith == builtin \in {"Add", "Sub", "Mul", "Div", "Rem"}

IsCompare == builtin \in {"Eq", "Gt", "Lt"}

\* the elements below the two top ones
BelowTwo == SubSeq(stack, 1, Len(stack) - 2)

Second == stack[Len(stack) - 1]

Third == stack[Len(stack) - 2]

\* C12: Add, Sub, Mul, Div, Rem, Eq, Gt and Lt on at least two elements fail
\* with NotANumber when either of the two top elements is an executable
\* sequence; Sel on at least three elements fails with NotANumber when the
\* third element from the top is an executable sequence, and succeeds when it
\* is an Integer, whatever the kinds of the two elements above it.
C12_TypeDiscipline ==
    /\ ( /\ IsArith \/ IsCompare
         /\ Len(stack) >= 2
         /\ \/ Last(stack).kind = "ExecutableSequence"
            \/ Second.kind = "ExecutableSequence" )
       => (out.tag = "Err" /\ out.err = "NotANumber")
    /\ (builtin = "Sel" /\ Len(stack) >= 3) =>
          IF Third.kind = "ExecutableSequence"
          THEN out.tag = "Err" /\ out.err = "NotANumber"
          ELSE out.tag = "Ok"

\* a division whose divisor is an Integer and whose dividend is a sequence
C12_Witness ==
    /\ builtin = "Div"
    /\ stack = <<SExecutableSequence(<<>>), SInteger(0)>>
    /\ out.tag = "Err"
    /\ out.err = "NotANumber"

\* C13: Exec on a stack whose top is an Integer fails with
\* NotAnExecutableSequence and starts no command.
C13_ExecRejectsInteger ==
    (builtin = "Exec" /\ stack # <<>> /\ Last(stack).kind = "Integer") =>
        /\ out.tag = "Err"
        /\ out.err = "NotAnExecutableSequence"
        /\ out.log = <<>>

C13_Witness ==
    /\ builtin = "Exec"
    /\ stack = <<SExecutableSequence(<<CBuiltIn("Pop"), CInteger(1)>>), SInteger(1)>>
    /\ out.tag = "Err"
    /\ out.err = "NotAnExecutableSequence"

TopTwoIntegers ==
    Len(stack) >= 2 /\ Last(stack).kind = "Integer" /\ Second.kind = "Integer"

\* C14 as stated: on Integers a (below) and b (top), Add, Sub, Mul, Div
\* (b # 0) and Rem (b # 0) replace the two by the Integer a op b and leave
\* the elements below unchanged.
C14_Original ==
    (IsArith /\ TopTwoIntegers /\ (builtin \in {"Div", "Rem"} => Last(stack).val # 0)) =>
        /\ out.tag = "Ok"
        /\ out.stack.v =
              Append(BelowTwo, SInteger(ArithValue(builtin, Second.val, Last(stack).val)))

\* C15: on Integers a (below) and b (top), Eq, Gt and Lt replace the two by
\* Integer 1 when a = b, a > b, a < b respectively, and by Integer 0
\* otherwise; the elements below are unchanged.
C15_Comparisons ==
    (IsCompare /\ TopTwoIntegers) =>
        /\ out.tag = "Ok"
        /\ Len(out.stack.v) = Len(stack) - 1
        /\ Front(out.stack.v) = BelowTwo
        /\ Last(out.stack.v).kind = "Integer"
        /\ Last(out.stack.v).val \in {0, 1}
        /\ Last(out.stack.v).val = 1 <=>
              CASE builtin = "Eq" -> Second.val = Last(stack).val
                [] builtin = "Gt" -> Second.val > Last(stack).val
                [] builtin = "Lt" -> Second.val < Last(stack).val

\* 2 > 1 above a quoted sequence
C15_Witness ==
    /\ builtin = "Gt"
    /\ stack = <<SExecutableSequence(<<>>), SInteger(2), SInteger(1)>>
    /\ out.tag = "Ok"
    /\ out.stack.v = <<SExecutableSequence(<<>>), SInteger(1)>>

\* C16: Sel on at least three elements whose third from the top is an
\* Integer c removes the three and pushes the top when c = 0 and the second
\* when c # 0, of whatever kind the pushed value is; the elements below are
\* unchanged.
C16_SelSelects ==
    (builtin = "Sel" /\ Len(stack) >= 3 /\ Third.kind = "Integer") =>
        /\ out.tag = "Ok"
        /\ out.stack.v = Append(SubSeq(stack, 1, Len(stack) - 3),
                                IF Third.val = 0 THEN Last(stack) ELSE Second)

\* c = 0 selects the quoted sequence on top; the value below the three stays
C16_Witness ==
    /\ builtin = "Sel"
    /\ stack = <<SInteger(1), SInteger(0), SInteger(2), SExecutableSequence(<<>>)>>
    /\ out.tag = "Ok"
    /\ out.stack.v = <<SInteger(1), SExecutableSequence(<<>>)>>

\* Nget with an Integer index i on top of n further elements, 1 <= i <= n
NgetInRange ==
    /\ builtin = "Nget"
    /\ stack # <<>>
    /\ Last(stack).kind = "Integer"
    /\ 1 <= Last(stack).val
    /\ Last(stack).val <= Len(stack) - 1

\* the element the index designates: the i-th from the top of the remaining stack
Designated == stack[Len(stack) - Last(stack).val]

\* C17: Nget with index i, 1 <= i <= n, designating an Integer removes the
\* index and pushes a copy of the designated element; the n remaining
\* elements stay in place and the depth is the same as before.
C17_NgetDuplicates ==
    (NgetInRange /\ Designated.kind = "Integer") =>
        /\ out.tag = "Ok"
        /\ out.stack.v = Append(Front(stack), Designated)
        /\ Len(out.stack.v) = Len(stack)

\* index 2 copies the second element from the top of the remaining stack
C17_Witness ==
    /\ builtin = "Nget"
    /\ stack = <<SInteger(2), SInteger(0), SInteger(2)>>
    /\ out.tag = "Ok"
    /\ out.stack.v = <<SInteger(2), SInteger(0), SInteger(2)>>

\* C18 as stated: Nget with an Integer index i <= 0 or i > n returns
\* NotEnoughValues and never aborts the host.
C18_Original ==
    ( /\ builtin = "Nget"
      /\ stack # <<>>
      /\ Last(stack).kind = "Integer"
      /\ Last(stack).val <= 0 \/ Last(stack).val > Len(stack) - 1 ) =>
        (out.tag = "Err" /\ out.err = "NotEnoughValues")

\* C19: Nget fails with NotANumber when its index is an executable sequence,
\* and when the index is in range and designates an executable sequence; no
\* stack is returned, so nothing is duplicated.
C19_NgetRejectsQuoted ==
    ( \/ builtin = "Nget" /\ stack # <<>> /\ Last(stack).kind = "ExecutableSequence"
      \/ NgetInRange /\ Designated.kind = "ExecutableSequence" ) =>
        /\ out.tag = "Err"
        /\ out.err = "NotANumber"
        /\ "stack" \notin DOMAIN out

C19_Witness ==
    /\ builtin = "Nget"
    /\ stack = <<SExecutableSequence(<<CBuiltIn("Pop"), CInteger(1)>>), SInteger(1)>>
    /\ out.tag = "Err"
    /\ out.err = "NotANumber"

\* C20: Swap on at least two elements exchanges the two top elements,
\* whatever their kinds, and leaves the elements below unchanged; Swap applied
\* to its result gives back the original stack.
C20_SwapExchanges ==
    (builtin = "Swap" /\ Len(stack) >= 2) =>
        /\ out.tag = "Ok"
        /\ out.stack.v = BelowTwo \o <<Last(stack), Second>>
        /\ Observed(apply_builtin(out.stack, "Swap")) = [tag |-> "Ok", v |-> stack]

\* an Integer and a quoted sequence exchanged above a third element
C20_Witness ==
    /\ builtin = "Swap"
    /\ stack = <<SInteger(0), SExecutableSequence(<<>>), SInteger(1)>>
    /\ out.tag = "Ok"
    /\ out.stack.v = <<SInteger(0), SInteger(1), SExecutableSequence(<<>>)>>

\* the quotient of a by b rounded toward zero
Quotient(a, b) ==
    CHOOSE q \in (0 - Abs(a))..Abs(a) :
        /\ Abs(q) * Abs(b) <= Abs(a)
        /\ Abs(a) < (Abs(q) + 1) * Abs(b)
        /\ q # 0 => ((q > 0) <=> ((a < 0) = (b < 0)))

\* C28 as stated: for Integers a (below) and b (top), b # 0, Div pushes the
\* quotient of a by b rounded toward zero and Rem pushes a - b * (that
\* quotient).
C28_Original ==
    (builtin \in {"Div", "Rem"} /\ TopTwoIntegers /\ Last(stack).val # 0) =>
        /\ out.tag = "Ok"
        /\ out.stack.v =
              Append(BelowTwo,
                     SInteger(IF builtin = "Div"
                              THEN Quotient(Second.val, Last(stack).val)
                              ELSE Second.val
                                   - Last(stack).val * Quotient(Second.val, Last(stack).val)))

\* the history of the commands started, of a result of either kind
LogOf(r) == IF r.tag = "Ok" THEN r.stack.log ELSE r.log

\* the value a literal command denotes
PushedBy(c) ==
    IF c.tag = "Integer" THEN SInteger(c.val) ELSE SExecutableSequence(c.cmds)

\* C21: an Integer command and an ExecutableSequence command succeed on
\* every stack, push exactly one value (the integer, or the sequence with
\* the commands of the literal) above the existing elements, and start no
\* command but themselves; a built-in other than Exec applied next starts
\* nothing more either, and an Exec applied next runs the commands of the
\* sequence on the stack below it.
C21_QuotingDoesNotExecute ==
    literal.tag # "none" =>
        /\ out.tag = "Ok"
        /\ out.stack.v = Append(stack, PushedBy(literal))
        /\ out.stack.log = <<[cmd |-> literal, before |-> stack]>>
        /\ \A b \in BuiltIns \ {"Exec"} :
              Len(LogOf(apply_command(out.stack, CBuiltIn(b)))) = 2
        /\ literal.tag = "ExecutableSequence" =>
              /\ Observed(apply_command(out.stack, CBuiltIn("Exec")))
                    = Observed(try_fold(Stack(stack), literal.cmds))
              /\ literal.cmds # <<>> =>
                    Len(LogOf(apply_command(out.stack, CBuiltIn("Exec")))) > 2

\* (pop 1) is pushed above a 2 that it would have popped
C21_Witness ==
    /\ literal = CExecutableSequence(<<CBuiltIn("Pop"), CInteger(1)>>)
    /\ stack = <<SInteger(2)>>
    /\ out.tag = "Ok"
    /\ out.stack.v = <<SInteger(2), SExecutableSequence(<<CBuiltIn("Pop"), CInteger(1)>>)>>

\* the fixed change of depth of a command; for Exec, the pop of the sequence
Delta(cmd) ==
    CASE cmd.tag \in {"Integer", "ExecutableSequence"} -> 1
      [] cmd.tag = "BuiltIn" /\ cmd.op \in {"Add", "Sub", "Mul", "Div", "Rem", "Eq",
                                             "Gt", "Lt", "Pop", "Exec"} -> 0 - 1
      [] cmd.tag = "BuiltIn" /\ cmd.op \in {"Swap", "Nget"} -> 0
      [] cmd.tag = "BuiltIn" /\ cmd.op = "Sel" -> 0 - 2

\* the number of operands a command pops itself
Popped(cmd) == IF cmd.tag = "BuiltIn" THEN Operands(cmd.op) ELSE 0

RECURSIVE SumDelta(_)
\* the sum of the fixed changes of the commands of a history
SumDelta(h) == IF h = <<>> THEN 0 ELSE Delta(Head(h).cmd) + SumDelta(Tail(h))

RECURSIVE Untouched(_, _)
\* the number of elements, from the bottom, that lie below every operand
\* popped by the commands of a history, starting from n
Untouched(h, n) ==
    IF h = <<>> THEN n
    ELSE Untouched(Tail(h), Min(n, Len(Head(h).before) - Popped(Head(h).cmd)))

\* the command applied, a built-in or a literal
AppliedCommand == IF builtin # "none" THEN CBuiltIn(builtin) ELSE literal

\* the commands run below the command applied: all of the history for a
\* built-in, the history without the literal itself for a literal
Nested == IF builtin # "none" THEN out.stack.log ELSE Tail(out.stack.log)

\* C31: a command that succeeds changes the depth by its fixed amount (+1
\* for a literal, -1 for the arithmetic and comparison operators and Pop, 0
\* for Swap and Nget, -2 for Sel), Exec by -1 plus the changes of the
\* commands it runs, nested ones included; and the elements below the
\* operands popped, by the command and by the commands it runs, are as they
\* were.  The same holds of every command run by an Exec, from the stack it
\* started on.
C31_DepthAndFrame ==
    ((builtin # "none" \/ literal.tag # "none") /\ out.tag = "Ok") =>
        /\ Len(out.stack.v) = Len(stack) + Delta(AppliedCommand) + SumDelta(Nested)
        /\ (AppliedCommand.tag = "BuiltIn" /\ AppliedCommand.op # "Exec") => Nested = <<>>
        /\ LET n == Untouched(Nested, Len(stack) - Popped(AppliedCommand))
           IN  /\ n >= 0
               /\ Len(out.stack.v) >= n
               /\ SubSeq(out.stack.v, 1, n) = SubSeq(stack, 1, n)
        /\ \A i \in 1..Len(Nested) :
              LET r == Outcome(Nested[i])
                  before == Nested[i].before
                  n == Untouched(Tail(r.stack.log), Len(before) - Popped(Nested[i].cmd))
              IN  r.tag = "Ok" =>
                     /\ Len(r.stack.v)
                           = Len(before) + SumDelta(r.stack.log)
                     /\ SubSeq(r.stack.v, 1, n) = SubSeq(before, 1, n)

\* ((pop) exec 1) run on a 1 with a 2 below it: the 2 is untouched, the depth
\* goes from 3 to 2 = 3 - 1 + (1 - 1 - 1 + 1)
C31_Witness ==
    /\ builtin = "Exec"
    /\ stack = <<SInteger(2), SInteger(1),
                 SExecutableSequence(<<CExecutableSequence(<<CBuiltIn("Pop")>>),
                                       CBuiltIn("Exec"), CInteger(1)>>)>>
    /\ out.tag = "Ok"
    /\ out.stack.v = <<SInteger(2), SInteger(1)>>
    /\ Len(out.stack.log) = 4

----------------------------------------------------------------------------
(* Properties of Command::eval, checked under SpecRead                      *)

Translated == translated # NoResult

ThirteenNames ==
    {"add", "div", "eq", "exec", "gt", "lt", "mul", "nget", "pop", "rem", "sel",
     "sub", "swap"}

\* the opcode a built-in name stands for
Opcode(name) ==
    CASE name = "add" -> "Add"   [] name = "div" -> "Div"   [] name = "eq" -> "Eq"
      [] name = "exec" -> "Exec" [] name = "gt" -> "Gt"     [] name = "lt" -> "Lt"
      [] name = "mul" -> "Mul"   [] name = "nget" -> "Nget" [] name = "pop" -> "Pop"
      [] name = "rem" -> "Rem"   [] name = "sel" -> "Sel"   [] name = "sub" -> "Sub"
      [] name = "swap" -> "Swap"

\* a node that has no translation
Rejected(node) ==
    \/ node.t \in {"Float", "String"}
    \/ node.t = "Symbol" /\ node.name \notin ThirteenNames

RECURSIVE HasRejected(_)
HasRejected(s) ==
    IF s.t = "List" THEN \E i \in 1..Len(s.items) : HasRejected(s.items[i])
    ELSE Rejected(s)

RECURSIVE SameShape(_, _)
SameShape(s, c) ==
    CASE s.t = "Integer" -> c.tag = "Integer" /\ c.val = s.val
      [] s.t = "Symbol" -> c.tag = "BuiltIn" /\ c.op = Opcode(s.name)
      [] s.t = "List" ->
            /\ c.tag = "ExecutableSequence"
            /\ Len(c.cmds) = Len(s.items)
            /\ \A i \in 1..Len(s.items) : SameShape(s.items[i], c.cmds[i])
      [] OTHER -> FALSE

\* C22: Command::eval yields a Command iff no node of the tree, at any depth,
\* is a float, a string or a symbol outside the thirteen built-in names; the
\* Command then has the shape of the tree: integer to Integer, built-in name
\* to its opcode, list to ExecutableSequence with the children in order.
C22_TranslationSucceedsIffNoRejectedNode ==
    Translated =>
        /\ translated.tag = "Ok" <=> ~HasRejected(tree)
        /\ translated.tag = "Ok" => SameShape(tree, translated.val)

\* a list holding a built-in name and a nested list with an integer
C22_Witness ==
    /\ tree = XList(<<XSymbol("rem"), XList(<<XInteger(1)>>)>>)
    /\ translated.tag = "Ok"
    /\ translated.val =
          CExecutableSequence(<<CBuiltIn("Rem"), CExecutableSequence(<<CInteger(1)>>)>>)

RECURSIVE Flatten(_)
RECURSIVE FlattenAll(_)
\* the nodes without children, in left-to-right depth-first order
Flatten(s) == IF s.t = "List" THEN FlattenAll(s.items) ELSE <<s>>

FlattenAll(items) ==
    IF items = <<>> THEN <<>> ELSE Flatten(Head(items)) \o FlattenAll(Tail(items))

\* the translation error of a rejected node
ErrorOf(node) ==
    CASE node.t = "Float" -> [e |-> "UsingFloat"]
      [] node.t = "String" -> [e |-> "UsingString"]
      [] node.t = "Symbol" -> [e |-> "UnknownBuiltin", name |-> node.name]

FirstError(s) == ErrorOf(Head(SelectSeq(Flatten(s), Rejected)))

\* the request (def foo 1 body...)
DefFoo(body) == XList(<<XSymbol("def"), XSymbol("foo"), XInteger(1)>> \o body)

\* C23: when a tree holds nodes that cannot be translated, the error
\* returned is the error of the first of them in left-to-right depth-first
\* order and no command is returned; a Def with that body is answered with
\* that error as a ReadError and registers nothing.
C23_FirstTranslationFailureWins ==
    (Translated /\ HasRejected(tree)) =>
        /\ translated.tag = "Err"
        /\ translated.err = FirstError(tree)
        /\ "val" \notin DOMAIN translated
        /\ tree.t = "List" =>
              /\ interpret(TopLevel_new, DefFoo(tree.items)).output
                    = Some("Error: {:?}", [e |-> "ReadError", inner |-> FirstError(tree)])
              /\ interpret(TopLevel_new, DefFoo(tree.items)).programs = TopLevel_new

\* a string inside a nested list comes before a float after that list
C23_Witness ==
    /\ tree = XList(<<XList(<<XString("s")>>), XFloat("1.5")>>)
    /\ translated.tag = "Err"
    /\ translated.err = [e |-> "UsingString"]

----------------------------------------------------------------------------
(* Properties of the registry, checked under Spec                           *)

\* the request as TopLevelCommand::read sees it
Parsed(sexp) ==
    IF sexp.t = "List" THEN TopLevelCommand_read(sexp.items)
    ELSE TErr([e |-> "NotAList"])

IsCall(sexp) == Parsed(sexp).tag = "Ok" /\ Parsed(sexp).val.cmd = "Call"

IsDef(sexp) == Parsed(sexp).tag = "Ok" /\ Parsed(sexp).val.cmd = "Def"

IsError(resp) == resp.some /\ resp.fmt \in {"Error: {:?}", "error: {:?}"}

IsProgramNotFound(resp, name) ==
    /\ resp.some
    /\ resp.fmt = "error: {:?}"
    /\ resp.arg.e = "ProgramNotFound"
    /\ resp.arg.name = name

\* C4: a request answered with an error leaves the name-to-program mapping
\* as it was, and the host keeps running, so that every later request is
\* accepted.
C4_FailingRequestLeavesRegistry ==
    [][IsError(response') => (programs' = programs /\ host' = "running")]_vars

\* a Def that fails to translate, answered while foo is registered
C4_Witness ==
    /\ request = XList(<<XSymbol("def"), XSymbol("foo"), XInteger(2),
                         XInteger(1), XFloat("1.5")>>)
    /\ IsError(response)
    /\ response.arg.e = "ReadError"
    /\ "foo" \in DOMAIN programs
    /\ programs["foo"] = Program_new(2, <<CBuiltIn("Pop")>>)
    /\ host = "running"

\* what interpret prints for a result of Program::apply
Rendered(r) ==
    IF r.tag = "Ok" THEN Some("{}", ToString(r.val)) ELSE Some("error: {:?}", r.err)

\* C5: a Call of a name that has been defined is answered from the arity and
\* body of the latest successful Def of that name, however many Defs there
\* were; and a successful Def changes the entry of its own name only.
C5_LatestDefinitionWins ==
    /\ [](IsCall(request) /\ Parsed(request).val.name \in DOMAIN latest =>
            LET r == Program_apply(latest[Parsed(request).val.name].program,
                                   Parsed(request).val.args)
            IN IF r.tag = "Panic" THEN host = "aborted"
               ELSE /\ host = "running"
                    /\ response.some
                    /\ response.fmt = Rendered(r).fmt
                    /\ response.arg = Rendered(r).arg)
    /\ [][IsDef(request') /\ host' = "running" =>
            /\ DOMAIN programs' = DOMAIN programs \cup {Parsed(request').val.name}
            /\ \A n \in DOMAIN programs \ {Parsed(request').val.name} :
                  programs'[n] = programs[n]
            /\ programs'[Parsed(request').val.name] =
                  Program_new(Parsed(request').val.num_args,
                              Parsed(request').val.commands)]_vars

\* foo defined twice, then called: the answer is the one of the second Def
C5_Witness ==
    /\ request = XList(<<XSymbol("foo"), XInteger(2)>>)
    /\ "foo" \in DOMAIN latest
    /\ latest["foo"].count >= 2
    /\ latest["foo"].program.num_args = 1
    /\ response = Some("{}", "4")

\* C6: a Call of a name that is not a key of the registry when the call is
\* made is answered ProgramNotFound with that name, and a Call of a name that
\* is a key is never answered ProgramNotFound.
C6_ProgramNotFoundIffUnregistered ==
    [][IsCall(request') =>
          (Parsed(request').val.name \notin DOMAIN programs
             <=> IsProgramNotFound(response', Parsed(request').val.name))]_vars

C6_Witness ==
    /\ request = XList(<<XSymbol("foo"), XInteger(2), XInteger(0)>>)
    /\ IsProgramNotFound(response, "foo")
    /\ "foo" \notin DOMAIN programs
    /\ host = "running"

\* a list whose first element is a symbol
HasLeadingSymbol(x) == x.t = "List" /\ x.items # <<>> /\ x.items[1].t = "Symbol"

DefLeading(x) == HasLeadingSymbol(x) /\ x.items[1].name = "def"

CallLeading(x) == HasLeadingSymbol(x) /\ x.items[1].name # "def"

IsReadError(resp, kind) == resp.some /\ resp.fmt = "Error: {:?}" /\ resp.arg.e = kind

NotAnIntegerNode(x) == x.t # "Integer"

\* the operands of a request as written, and those that are not integers
Written(x) == Tail(x.items)

Offending(x) == SelectSeq(Written(x), NotAnIntegerNode)

WrittenIntegers(x) == [i \in 1..Len(Written(x)) |-> Written(x)[i].val]

\* the response is the answer of the program p to the operands of the request x
AnswersWith(p, x, resp, hostAfter) ==
    LET r == Program_apply(p, WrittenIntegers(x)) IN
    IF r.tag = "Panic" THEN hostAfter = "aborted"
    ELSE /\ hostAfter = "running"
         /\ resp.some
         /\ resp.fmt = Rendered(r).fmt
         /\ resp.arg = Rendered(r).arg

\* the request x was handled by TopLevelCommand::def
HandledAsDef(x, resp, before, after) ==
    \/ /\ ~resp.some
       /\ resp.fmt = ""
       /\ Len(x.items) >= 3
       /\ x.items[2].t = "Symbol"
       /\ x.items[2].name \in DOMAIN after
    \/ /\ resp.some
       /\ resp.fmt = "Error: {:?}"
       /\ resp.arg.e \in {"NotEnoughArgs", "NotASymbol", "NotAnInteger", "ReadError"}
       /\ resp.arg.e = "NotEnoughArgs" => resp.arg.context = "def"
       /\ after = before

\* the request x was handled as a call of its leading symbol
HandledAsCall(x, resp, before, after, hostAfter) ==
    /\ after = before
    /\ IF Offending(x) # <<>> THEN IsReadError(resp, "IllegalArgumentType")
       ELSE IF x.items[1].name \notin DOMAIN before
       THEN IsProgramNotFound(resp, x.items[1].name)
       ELSE AnswersWith(before[x.items[1].name], x, resp, hostAfter)

\* C24 as stated: a list whose leading symbol is missing, the first element
\* being absent or not a symbol, fails with NotASymbol.
C24_Original ==
    (request.t = "List" /\ ~HasLeadingSymbol(request)) => IsReadError(response, "NotASymbol")

\* C24, amended: a list led by the symbol def is handled as a definition, a
\* list led by any other symbol is handled as a call of that name, a
\* non-empty list whose first element is not a symbol fails with NotASymbol,
\* and the empty list fails with NotEnoughArgs("()").
C24_RequestClassification ==
    [][request'.t = "List" =>
          IF request'.items = <<>>
          THEN /\ IsReadError(response', "NotEnoughArgs")
               /\ response'.arg.context = "()"
               /\ programs' = programs
          ELSE IF ~HasLeadingSymbol(request')
          THEN IsReadError(response', "NotASymbol") /\ programs' = programs
          ELSE IF DefLeading(request')
          THEN HandledAsDef(request', response', programs, programs')
          ELSE HandledAsCall(request', response', programs, programs', host')]_vars

\* the empty list, and (def) answered as a definition short of operands
C24_Witness ==
    /\ request = XList(<<>>)
    /\ IsReadError(response, "NotEnoughArgs")
    /\ response.arg.context = "()"

\* C25: a call passes its integer operands to the program in the order
\* written; if an operand is not an integer the request fails with
\* IllegalArgumentType carrying the first such operand, whether or not the
\* name is registered, the registry is unchanged and no program runs.
C25_CallArgumentsAreIntegers ==
    [][CallLeading(request') =>
          IF Offending(request') # <<>>
          THEN /\ IsReadError(response', "IllegalArgumentType")
               /\ response'.arg.expr = Head(Offending(request'))
               /\ programs' = programs
               /\ host' = "running"
          ELSE request'.items[1].name \in DOMAIN programs =>
                  AnswersWith(programs[request'.items[1].name], request', response', host')]_vars

\* two operands that are not integers, for a registered name: the first is reported
C25_Witness ==
    /\ request = XList(<<XSymbol("sub"), XFloat("1.5"), XSymbol("x")>>)
    /\ IsReadError(response, "IllegalArgumentType")
    /\ response.arg.expr = XFloat("1.5")
    /\ host = "running"

\* C26: the set of registered names never shrinks, a Call leaves the whole
\* mapping unchanged, and the mapping changes only by a successful Def, which
\* changes the entry of its own name only.
C26_RegistryOnlyGrows ==
    [][/\ DOMAIN programs \subseteq DOMAIN programs'
       /\ CallLeading(request') => programs' = programs
       /\ programs' # programs =>
             /\ DefLeading(request')
             /\ ~response'.some
             /\ response'.fmt = ""
             /\ \A n \in DOMAIN programs \ {request'.items[2].name} :
                   programs'[n] = programs[n]]_vars

\* foo and sub both defined; the other wrappers are still there
C26_Witness ==
    /\ DOMAIN programs = {"add", "sub", "mul", "div", "eq", "lt", "gt", "foo"}
    /\ DOMAIN latest = {"foo", "sub"}
    /\ programs["sub"] = Program_new(2, <<CBuiltIn("Pop")>>)
    /\ programs["div"] = Program_new(2, <<CBuiltIn("Div")>>)
    /\ DefLeading(request)
    /\ ~response.some

SevenNames == {"add", "sub", "mul", "div", "eq", "lt", "gt"}

\* C30: the registry starts with exactly the seven names add, sub, mul,
\* div, eq, lt and gt, each bound to the program of arity 2 whose body is
\* the built-in of that name; a wrapper stays until a Def of its name
\* replaces it; the registered names are the seven and the names defined; a
\* call of any other name is answered ProgramNotFound.
C30_InitialRegistry ==
    /\ DOMAIN programs = SevenNames \cup DOMAIN latest
    /\ \A n \in SevenNames \ DOMAIN latest :
          programs[n] = Program_new(2, <<CBuiltIn(Opcode(n))>>)
    /\ \A n \in DOMAIN latest : programs[n] = latest[n].program
    /\ ( /\ CallLeading(request)
         /\ Offending(request) = <<>>
         /\ request.items[1].name \notin SevenNames \cup DOMAIN latest )
       => IsProgramNotFound(response, request.items[1].name)

\* rem has no wrapper, and the wrapper of sub has been replaced
C30_Witness ==
    /\ request = XList(<<XSymbol("rem"), XInteger(2), XInteger(0)>>)
    /\ IsProgramNotFound(response, "rem")
    /\ "sub" \in DOMAIN latest
    /\ programs["sub"] = Program_new(1, <<CBuiltIn("Sub")>>)
    /\ programs["div"] = Program_new(2, <<CBuiltIn("Div")>>)

\* C29: a Call made again, with the same name and the same arguments and no
\* Def of that name since it was first answered, gets the answer it got the
\* first time, whatever requests were served in between.
C29_SameCallSameAnswer ==
    [][(memo.some /\ request' = memo.request) =>
          /\ host' = "running"
          /\ response'.some = memo.answer.some
          /\ response'.fmt = memo.answer.fmt
          /\ response'.arg = memo.answer.arg]_vars

\* (foo 2) answered 4 a second time, after other requests
C29_Witness ==
    /\ memo.some
    /\ memo.request = XList(<<XSymbol("foo"), XInteger(2)>>)
    /\ memo.again
    /\ memo.between
    /\ request = memo.request
    /\ response = Some("{}", "4")
    /\ memo.answer = Some("{}", "4")


----------------------------------------------------------------------------
(* Properties of definitions, checked under SpecDef                         *)

\* the request is written (def name arity body...) with a body that translates
WellFormedDef(x) ==
    /\ x.t = "List"
    /\ Len(x.items) >= 3
    /\ x.items[1] = XSymbol("def")
    /\ x.items[2].t = "Symbol"
    /\ x.items[3].t = "Integer"
    /\ Command_eval_ex_seq(SubSeq(x.items, 4, Len(x.items))).tag = "Ok"

BodyOf(x) == Command_eval_ex_seq(SubSeq(x.items, 4, Len(x.items))).val

\* every Call a request can carry fails on the program
NeverAnswers(p) ==
    \A n \in 0..(MaxCallArgs + 1) : \A a \in [1..n -> CallArgValues] :
        Program_apply(p, a).tag # "Ok"

\* C33: a Def whose body translates is accepted with no output and its
\* program stored as written, without a command of the body being run, also
\* when no Call of the program can succeed; the failure of the body is the
\* answer of a later Call, which leaves the registry and the host as they
\* were.
C33_DefDoesNotEvaluate ==
    [][ /\ WellFormedDef(request') =>
            /\ host' = "running"
            /\ ~response'.some
            /\ response'.fmt = ""
            /\ request'.items[2].name \in DOMAIN programs'
            /\ programs'[request'.items[2].name]
                  = Program_new(AsUsize(request'.items[3].val), BodyOf(request'))
        /\ (IsCall(request') /\ Parsed(request').val.name \in DOMAIN programs) =>
            LET r == Program_apply(programs[Parsed(request').val.name],
                                   Parsed(request').val.args)
            IN  r.tag = "Err" =>
                   /\ host' = "running"
                   /\ programs' = programs
                   /\ response'.some
                   /\ response'.fmt = "error: {:?}"
                   /\ response'.arg = r.err ]_vars

\* (def foo 0 pop) was accepted, no call of it can succeed, and (foo) is
\* answered NotEnoughValues
C33_Witness ==
    /\ request = XList(<<XSymbol("foo")>>)
    /\ "foo" \in DOMAIN programs
    /\ programs["foo"] = Program_new(0, <<CBuiltIn("Pop")>>)
    /\ NeverAnswers(programs["foo"])
    /\ host = "running"
    /\ response.some
    /\ response.fmt = "error: {:?}"
    /\ response.arg = ProgramError("NotEnoughValues")

\* C34 as stated: a Def written with a negative arity is accepted, and
\* every Call of the program it registers is answered WrongNumberOfArgs.
C34_Original ==
    /\ (WellFormedDef(request) /\ request.items[3].val < 0) =>
          (~response.some /\ request.items[2].name \in DOMAIN programs)
    /\ ( /\ IsCall(request)
         /\ Parsed(request).val.name \in DOMAIN latest
         /\ latest[Parsed(request).val.name].written < 0 ) =>
          /\ response.some
          /\ response.fmt = "error: {:?}"
          /\ response.arg.e = "WrongNumberOfArgs"


----------------------------------------------------------------------------
(* Properties of the Lisp evaluator's begin, checked under SpecBegin        *)

IsBegin(x) == x.t = "List" /\ x.items # <<>> /\ Head(x.items) = XSymbol("begin")

\* the expressions e1 ... en of a begin form, as values
BeginBody(x) == [i \in 1..(Len(x.items) - 1) |-> Value_from(x.items[i + 1])]

\* (begin e1 ... ej) evaluated in a runtime
BeginPrefix(self, es, j) == eval(self, VList(<<VSymbol("begin")>> \o SubSeq(es, 1, j)))

\* C35: (begin) returns Integer 813 and leaves the runtime as it was; and
\* when e1 ... e(j-1) have been evaluated, ej is evaluated in the runtime
\* they left: if it fails, its failure is the result of the begin and the
\* runtime stays as ej left it (nothing after ej is evaluated); if it is the
\* last expression and succeeds, its value is the result.
C35_BeginSequences ==
    [][IsBegin(request') =>
          LET es == BeginBody(request')
              start == Runtime(runtime.env)
          IN  /\ es = <<>> =>
                    /\ evaluated'.tag = "Ok"
                    /\ evaluated'.val = VInteger(813)
                    /\ runtime' = runtime
              /\ \A j \in 1..Len(es) :
                    LET pre == BeginPrefix(start, es, j - 1) IN
                    pre.tag = "Ok" =>
                        LET c == eval(pre.rt, es[j]) IN
                        /\ c.tag # "Ok" =>
                              /\ evaluated'.tag = c.tag
                              /\ evaluated'.err = c.err
                              /\ evaluated'.rt = c.rt
                        /\ (c.tag = "Ok" /\ j = Len(es)) =>
                              /\ evaluated'.tag = "Ok"
                              /\ evaluated'.val = c.val
                              /\ evaluated'.rt = c.rt
              /\ runtime'.env = evaluated'.rt.env]_vars

\* (begin (set! b a) zzz (set! a 2)) where a is 1: b is set, zzz fails, and
\* the second set! is not evaluated
C35_Witness ==
    /\ request = XList(<<XSymbol("begin"),
                         XList(<<XSymbol("set!"), XSymbol("b"), XSymbol("a")>>),
                         XSymbol("zzz"),
                         XList(<<XSymbol("set!"), XSymbol("a"), XInteger(2)>>)>>)
    /\ evaluated.tag = "Err"
    /\ evaluated.err = "UndefinedSymbol"
    /\ DOMAIN runtime.env = {"a", "b"}
    /\ runtime.env["a"] = VInteger(1)
    /\ runtime.env["b"] = VInteger(1)


----------------------------------------------------------------------------
(* Properties of the Lisp evaluator's set!, checked under SpecLisp          *)

\* the request is written (set! name e), name a symbol
TopSet(x) ==
    /\ x.t = "List"
    /\ Len(x.items) = 3
    /\ Head(x.items) = XSymbol("set!")
    /\ Value_from(x.items[2]).k = "Symbol"

\* the request is a symbol
TopSymbol(x) == x.t = "Symbol" /\ Value_from(x).k = "Symbol"

RECURSIVE LookupsAgree(_, _)
\* every symbol looked up in a history h got the value of the last set! of
\* its name completed before it, in hist or earlier in h, and
\* UndefinedSymbol if there was none
LookupsAgree(hist, h) ==
    IF h = <<>> THEN TRUE
    ELSE IF Head(h).ev = "get"
    THEN /\ Head(h).found = (Head(h).name \in DOMAIN hist)
         /\ Head(h).found => Head(h).val = hist[Head(h).name]
         /\ LookupsAgree(hist, Tail(h))
    ELSE LookupsAgree(Replay(hist, <<Head(h)>>), Tail(h))

\* a (set! name e) that succeeds binds name to the value e had, for the
\* history and for an evaluation of name made next
SetBinds ==
    (TopSet(request') /\ evaluated'.tag = "Ok") =>
        LET name == request'.items[2].name
            e == eval(Runtime(runtime.env), Value_from(request'.items[3]))
            later == eval(Runtime(runtime'.env), VSymbol(name))
        IN  /\ e.tag = "Ok"
            /\ evaluated'.val = VList(<<>>)
            /\ name \in DOMAIN assigned'
            /\ assigned'[name] = e.val
            /\ later.tag = "Ok"
            /\ later.val = e.val
            /\ \A n \in DOMAIN runtime'.env \ {name} :
                  n \in DOMAIN e.rt.env /\ runtime'.env[n] = e.rt.env[n]

\* a symbol evaluates to the value of the last set! of its name, and to
\* UndefinedSymbol when there was none; so do the symbols evaluated inside
\* the request
LookupsFollowHistory ==
    /\ host = "running" => LookupsAgree(assigned, evaluated'.rt.log)
    /\ TopSymbol(request') =>
          IF request'.name \in DOMAIN assigned
          THEN /\ evaluated'.tag = "Ok"
               /\ evaluated'.val = assigned[request'.name]
               /\ runtime' = runtime
          ELSE /\ evaluated'.tag = "Err"
               /\ evaluated'.err = "UndefinedSymbol"
               /\ runtime' = runtime

\* C36 as stated: a set! that succeeds binds its name to the value of its
\* expression for every later evaluation of the name, a symbol never set
\* evaluates to UndefinedSymbol, and a set! whose expression fails leaves
\* the environment unchanged.
C36_Original ==
    [][ /\ SetBinds
        /\ LookupsFollowHistory
        /\ (TopSet(request') /\ evaluated'.tag = "Err") => runtime' = runtime ]_vars

\* C36, amended: a set! that succeeds binds its name to the value of its
\* expression for every later evaluation of the name, a symbol never set
\* evaluates to UndefinedSymbol, and a set! whose expression fails binds
\* nothing itself: it leaves the environment as the failed expression left
\* it, which is the environment before unless a set! inside the expression
\* completed before the failure.
C36_SetBindsUntilNextSet ==
    [][ /\ SetBinds
        /\ LookupsFollowHistory
        /\ (TopSet(request') /\ evaluated'.tag = "Err") =>
              LET e == eval(Runtime(runtime.env), Value_from(request'.items[3])) IN
              /\ e.tag = "Err"
              /\ evaluated'.err = e.err
              /\ runtime'.env = e.rt.env
              /\ (\A i \in 1..Len(e.rt.log) : e.rt.log[i].ev # "set") => runtime' = runtime
      ]_vars

\* b evaluates to the 3 that (set! a (begin (set! b 3) zzz)) gave it before
\* failing; a was not bound
C36_Witness ==
    /\ request = XSymbol("b")
    /\ evaluated.tag = "Ok"
    /\ evaluated.val = VInteger(3)
    /\ "b" \in DOMAIN assigned
    /\ assigned["b"] = VInteger(3)
    /\ "a" \notin DOMAIN runtime.env

====
